---------------------------- MODULE Spec2Model ----------------------------
(***************************************************************************)
(* Model of the batch downloader's concurrent engine                       *)
(* (src/danmu_batch_downloader.py): the worker pool of run_download, the   *)
(* retry loop _request_with_retry, the shared rate-limit gate and the      *)
(* retry/backoff policy.  Time is the monotonic clock in milliseconds.     *)
(***************************************************************************)
EXTENDS Integers, Sequences, FiniteSets, Bags, TLC

(***************************************************************************)
(* Bounds of the model (inputs are drawn up to these).                     *)
(***************************************************************************)
MaxConcurrency == 2   \* opts["concurrency"] is drawn from 1..MaxConcurrency
MaxRawTasks == 2      \* length of the raw task list handed to run_download
MaxRetries == 1       \* opts["retries"] is drawn from 0..MaxRetries
MaxExtendCalls == 2   \* gate extensions each simulated caller makes
MaxClockSteps == 2    \* clock steps while the simulated callers run
MaxAttempt == 8       \* attempt indexes _compute_retry_delay_ms is applied to
MaxBaseLen == 3       \* characters in a task's base name
MaxGrants == 4        \* calls of schedule_start in a run
StartClockMs == 1000  \* time.monotonic() when the run starts

(***************************************************************************)
(* Program constants.                                                      *)
(***************************************************************************)
MAX_RETRY_DELAY_MS == 120000
RETRY_JITTER_DIV == 4           \* RETRY_JITTER_RATIO = 0.25
FINAL_RATE_LIMIT_COOLDOWN_MS == 30000
FINAL_NETWORK_COOLDOWN_MS == 15000
RetryDelayMs == 1500            \* DEFAULTS["retry_delay_ms"]
GateSliceMs == 1000             \* time.sleep(min(wait_sec, 1.0))
MinDelayMs == 100               \* max(100, ...) in _compute_retry_delay_ms
Floor429Ms == 5000
FloorBusyMs == 1200
RETRY_AFTER_STATUSES == {429, 503}
None == -1                      \* Python's None where an int is expected

Max(a, b) == IF a >= b THEN a ELSE b
Min(a, b) == IF a <= b THEN a ELSE b

RECURSIVE Pow2(_)
Pow2(n) == IF n <= 0 THEN 1 ELSE 2 * Pow2(n - 1)

(***************************************************************************)
(* Retry/backoff policy.                                                   *)
(***************************************************************************)
IsRetryableStatusNoUpper(status) == status \in {408, 425, 429} \/ 500 <= status

\* _is_retryable_status
IsRetryableStatus(status) ==
    status \in {408, 425, 429} \/ (500 <= status /\ status <= 599)

\* jitter_span of _compute_retry_delay_ms
JitterSpan(attempt, retry_delay_ms) ==
    LET base_delay_ms == Max(MinDelayMs, retry_delay_ms)
        exponential_ms == Min(MAX_RETRY_DELAY_MS, base_delay_ms * Pow2(attempt))
    IN  Max(1, exponential_ms \div RETRY_JITTER_DIV)

ComputeRetryDelayMsNoFloors(attempt, retry_delay_ms, status, retry_after_ms, jitter) ==
    Min(MAX_RETRY_DELAY_MS,
        Max(MinDelayMs,
            Min(MAX_RETRY_DELAY_MS, Max(MinDelayMs, retry_delay_ms) * Pow2(attempt))
                + jitter))

ComputeRetryDelayMsUncapped(attempt, retry_delay_ms, status, retry_after_ms, jitter) ==
    LET w0 == Max(MinDelayMs, Max(MinDelayMs, retry_delay_ms) * Pow2(attempt) + jitter)
        w1 == IF status = 429 THEN Max(w0, Floor429Ms)
              ELSE IF status \in {408, 425, 503} THEN Max(w0, FloorBusyMs)
              ELSE w0
    IN  IF retry_after_ms # None THEN Max(w1, retry_after_ms) ELSE w1

\* _compute_retry_delay_ms; jitter is the value random.randint returned
ComputeRetryDelayMs(attempt, retry_delay_ms, status, retry_after_ms, jitter) ==
    LET base_delay_ms == Max(MinDelayMs, retry_delay_ms)
        exponential_ms == Min(MAX_RETRY_DELAY_MS, base_delay_ms * Pow2(attempt))
        w0 == Max(MinDelayMs, exponential_ms + jitter)
        w1 == IF status = 429 THEN Max(w0, Floor429Ms)
              ELSE IF status \in {408, 425, 503} THEN Max(w0, FloorBusyMs)
              ELSE w0
        w2 == IF retry_after_ms # None
              THEN Max(w1, Min(MAX_RETRY_DELAY_MS, retry_after_ms))
              ELSE w1
    IN  Min(MAX_RETRY_DELAY_MS, w2)

\* the values of random.randint(-jitter_span, jitter_span) a run may see:
\* the ends and the middle of the range, as signs allows
Jitters(signs, attempt, retry_delay_ms) ==
    {k * JitterSpan(attempt, retry_delay_ms) : k \in signs}

ParseRetryAfterMsIgnored(header) == None

\* _parse_retry_after_ms on a header that is absent (None) or whole seconds
ParseRetryAfterMs(header) ==
    IF header = None THEN None ELSE Max(0, header * 1000)


(***************************************************************************)
(* What _request_once can hand back: an HTTP response (status, body,       *)
(* Retry-After header) or an exception.  Bodies and exceptions are named   *)
(* by what the code reads of them.                                         *)
(***************************************************************************)
Bodies == {"dict_ok", "dict_nomatch", "dict_emptylist", "soft429", "soft503",
           "code429_success", "nondict", "invalid", "empty"}
SoftBodies == {"soft429", "soft503"}

\* not text.strip()
BodyIsBlank(body) == body = "empty"
\* json.loads(text) does not raise
BodyParses(body) == body \notin {"invalid", "empty"}
\* isinstance(decoded, dict)
BodyIsDict(body) ==
    body \in {"dict_ok", "dict_nomatch", "dict_emptylist", "soft429", "soft503",
              "code429_success"}
\* _parse_maybe_int(decoded.get("errorCode"))
BodyErrorCode(body) ==
    CASE body \in {"soft429", "code429_success"} -> 429
      [] body = "soft503" -> 503
      [] OTHER -> None
\* decoded.get("success") is True
BodySuccessTrue(body) ==
    body \in {"dict_ok", "dict_nomatch", "dict_emptylist", "code429_success"}

ExcTypes == {"TimeoutError", "ConnectionResetError", "RuntimeError"}

(***************************************************************************)
(* Exception objects, by name.  Of an exception the classifier reads its   *)
(* type, errno and winerror, whether str(exc).lower() contains one of      *)
(* RETRYABLE_ERROR_HINTS, and the exceptions its reason, __cause__ and     *)
(* __context__ refer to ("": None, or not an exception).                   *)
(***************************************************************************)
RETRYABLE_WINERROR_CODES == {10053, 10054, 10060, 10061}
RETRYABLE_ERRNO_CODES == {54, 60, 104, 110, 111, 113}
RETRYABLE_ERROR_HINTS ==
    {"connection reset", "connection aborted", "forcibly closed", "timed out",
     "temporary failure", "eof occurred in violation of protocol",
     "ssl: wrong version number", "getaddrinfo failed",
     "name or service not known", "no route to host", "network is unreachable",
     "winerror 10053", "winerror 10054", "winerror 10060", "winerror 10061",
     "U+5F3A U+8FEB U+5173 U+95ED U+4E86 U+4E00 U+4E2A U+73B0 U+6709 U+7684 U+8FDE U+63A5"}

\* any(hint in message for hint in RETRYABLE_ERROR_HINTS), the message being a
\* sequence of lower-case text pieces
MessageHinted(message) ==
    \E i \in DOMAIN message : message[i] \in RETRYABLE_ERROR_HINTS

\* the request URL as urlsplit reads it; its text is a sequence of pieces
Url(scheme, netloc, path) == [scheme |-> scheme, netloc |-> netloc, path |-> path]
UrlText(url) == << url.scheme, "://", url.netloc >> \o url.path
HttpUrl == Url("http", "host", << "/", "api" >>)
FtpUrl == Url("ftp", "host", << "/", "api" >>)
FtpHintedUrl == Url("ftp", "host", << "/", "timed out" >>)

\* parsed.scheme in {"http", "https"} and parsed.netloc
RequestUrlValid(url) == url.scheme \in {"http", "https"} /\ url.netloc # ""

ExcObject(type, errno, winerror, message, reason, cause, context) ==
    [type |-> type, errno |-> errno, winerror |-> winerror,
     hinted |-> MessageHinted(message),
     reason |-> reason, cause |-> cause, context |-> context]

PlainExc(type) == ExcObject(type, None, None, << >>, "", "", "")

\* the exceptions a request can end with
ExcNames ==
    ExcTypes \cup
    {"Invalid request URL", "Invalid request URL: timed out",
     "BrokenPipeError", "HTTPException", "OSError(104)", "OSError(2)",
     "OSError(winerror 10054)", "ValueError('timed out')",
     "URLError(TimeoutError)", "URLError(RuntimeError)", "URLError('timed out')",
     "URLError(deep)", "RuntimeError from BrokenPipeError",
     "RuntimeError during HTTPException", "RuntimeError from RuntimeError",
     "cycle A", "cycle B", "cycle C", "cycle D"}

Exceptions ==
    [name \in ExcNames |->
        CASE name = "Invalid request URL" ->
                ExcObject("RuntimeError", None, None,
                          << "invalid request url: " >> \o UrlText(FtpUrl),
                          "", "", "")
          [] name = "Invalid request URL: timed out" ->
                ExcObject("RuntimeError", None, None,
                          << "invalid request url: " >> \o UrlText(FtpHintedUrl),
                          "", "", "")
          [] name = "OSError(104)" ->
                ExcObject("OSError", 104, None, << "connection reset by peer" >>,
                          "", "", "")
          [] name = "OSError(2)" ->
                ExcObject("OSError", 2, None, << "no such file or directory" >>,
                          "", "", "")
          [] name = "OSError(winerror 10054)" ->
                ExcObject("OSError", 22, 10054,
                          << "[", "winerror 10054", "] ", "forcibly closed" >>,
                          "", "", "")
          [] name = "ValueError('timed out')" ->
                ExcObject("ValueError", None, None, << "timed out" >>, "", "", "")
          [] name = "URLError(TimeoutError)" ->
                ExcObject("URLError", None, None, << "<urlopen error ", ">" >>,
                          "TimeoutError", "", "")
          [] name = "URLError(RuntimeError)" ->
                ExcObject("URLError", None, None, << "<urlopen error ", ">" >>,
                          "RuntimeError", "", "")
          [] name = "URLError('timed out')" ->
                ExcObject("URLError", None, None,
                          << "<urlopen error ", "timed out", ">" >>, "", "", "")
          [] name = "URLError(deep)" ->
                ExcObject("URLError", None, None, << "<urlopen error ", ">" >>,
                          "RuntimeError from BrokenPipeError", "", "")
          [] name = "RuntimeError from BrokenPipeError" ->
                ExcObject("RuntimeError", None, None, << >>, "",
                          "BrokenPipeError", "BrokenPipeError")
          [] name = "RuntimeError during HTTPException" ->
                ExcObject("RuntimeError", None, None, << >>, "", "",
                          "HTTPException")
          [] name = "RuntimeError from RuntimeError" ->
                ExcObject("RuntimeError", None, None, << >>, "",
                          "RuntimeError", "RuntimeError")
          [] name = "cycle A" ->
                ExcObject("RuntimeError", None, None, << >>, "", "cycle B", "")
          [] name = "cycle B" ->
                ExcObject("KeyError", None, None, << >>, "", "", "cycle A")
          [] name = "cycle C" ->
                ExcObject("RuntimeError", None, None, << >>, "", "cycle D",
                          "cycle C")
          [] name = "cycle D" ->
                ExcObject("RuntimeError", None, None, << >>, "", "OSError(104)",
                          "cycle C")
          [] OTHER -> PlainExc(name)]

\* raise RuntimeError(f"Invalid request URL: {url}")
InvalidUrlError(url) ==
    IF MessageHinted(UrlText(url)) THEN "Invalid request URL: timed out"
    ELSE "Invalid request URL"

\* the isinstance tuple of _is_retryable_network_error (socket.timeout is
\* TimeoutError)
RetryableExcTypes ==
    {"TimeoutError", "ConnectionResetError", "ConnectionAbortedError",
     "ConnectionRefusedError", "BrokenPipeError", "HTTPException"}
\* isinstance(error_item, OSError)
OSErrorTypes ==
    {"OSError", "URLError", "TimeoutError", "ConnectionResetError",
     "ConnectionAbortedError", "ConnectionRefusedError", "BrokenPipeError"}

\* what one pass of the while loop appends to pending: the reason of a
\* URLError, then __cause__, then __context__
ExcLinks(current) ==
    LET item == Exceptions[current] IN
    (IF item.type = "URLError" /\ item.reason # "" THEN << item.reason >>
     ELSE << >>)
    \o (IF item.cause # "" THEN << item.cause >> ELSE << >>)
    \o (IF item.context # "" THEN << item.context >> ELSE << >>)

\* if marker in seen: continue
IterExceptionChainSkips(pending, seen, current) == current \in seen

\* _iter_exception_chain: the exceptions it yields, in order
RECURSIVE IterExceptionChainFrom(_, _, _)
IterExceptionChainFrom(pending, seen, yielded) ==
    IF pending = << >> THEN yielded
    ELSE LET current == Head(pending) IN
         IF IterExceptionChainSkips(pending, seen, current)
         THEN IterExceptionChainFrom(Tail(pending), seen, yielded)
         ELSE IterExceptionChainFrom(Tail(pending) \o ExcLinks(current),
                                     seen \cup {current},
                                     Append(yielded, current))

IterExceptionChain(exc) == IterExceptionChainFrom(<< exc >>, {}, << >>)

\* the three tests _is_retryable_network_error makes of one error_item
IsRetryableErrorItem(name) ==
    LET item == Exceptions[name] IN
    \/ item.type \in RetryableExcTypes
    \/ /\ item.type \in OSErrorTypes
       /\ (item.winerror \in RETRYABLE_WINERROR_CODES
              \/ item.errno \in RETRYABLE_ERRNO_CODES)
    \/ item.hinted

IsRetryableOutermostOnly(exc) == IsRetryableErrorItem(exc)

\* _is_retryable_network_error
IsRetryableNetworkError(exc) ==
    LET chain == IterExceptionChain(exc) IN
    \E i \in DOMAIN chain : IsRetryableErrorItem(chain[i])

HttpResp(status, body, header) ==
    [kind |-> "http", status |-> status, body |-> body, retryAfter |-> header,
     exc |-> "", will_close |-> FALSE]
ExcResp(exc) ==
    [kind |-> "exc", status |-> None, body |-> "empty", retryAfter |-> None,
     exc |-> exc, will_close |-> FALSE]
\* the same response, with response.will_close set
Closing(resp) == [resp EXCEPT !.will_close = TRUE]

ErrorStatuses == {400, 404, 408, 425, 429, 500, 503, 599, 600}
RetryAfterSeconds == 7

Responses ==
    {HttpResp(200, b, None) : b \in Bodies}
    \cup {HttpResp(200, b, RetryAfterSeconds) : b \in SoftBodies}
    \cup {HttpResp(s, "empty", None) : s \in ErrorStatuses}
    \cup {HttpResp(s, "empty", RetryAfterSeconds) : s \in {408, 429, 500, 503}}
    \cup {ExcResp(e) : e \in ExcTypes}

(***************************************************************************)
(* The branch _request_with_retry takes on one attempt's outcome.          *)
(*   act     "return" | "raise" | "retry"                                  *)
(*   exc     the exception type raised ("" unless act = "raise")           *)
(*   status  the HttpError's status (None otherwise)                       *)
(*   wait_ms the argument of _extend_shared_retry_gate (0: not called)     *)
(***************************************************************************)
Branch(act, exc, status, wait_ms) ==
    [act |-> act, exc |-> exc, status |-> status, wait_ms |-> wait_ms]

GivesUpAlways(attempt, retries, retryable) == TRUE

\* attempt >= retries or not <retryable>
GivesUp(attempt, retries, retryable) == attempt >= retries \/ ~retryable

FinalHttpExtendsNever(attempt, retries, status) == FALSE

\* attempt >= retries and status in RETRY_AFTER_STATUSES
FinalHttpExtends(attempt, retries, status) ==
    attempt >= retries /\ status \in RETRY_AFTER_STATUSES

FinalNetworkExtendsAny(retryable) == TRUE

\* if retryable_network_error: (before the final cooldown)
FinalNetworkExtends(retryable) == retryable

\* body_status in RETRY_AFTER_STATUSES and decoded.get("success") is not True
IsSoftRateLimit(body) ==
    BodyErrorCode(body) \in RETRY_AFTER_STATUSES /\ ~BodySuccessTrue(body)

\* the status >= 400 branch
OnHttpError(resp, attempt, retries, jitter) ==
    IF GivesUp(attempt, retries, IsRetryableStatus(resp.status))
    THEN Branch("raise", "HttpError", resp.status,
                IF FinalHttpExtends(attempt, retries, resp.status)
                THEN Max(FINAL_RATE_LIMIT_COOLDOWN_MS,
                         ComputeRetryDelayMs(attempt, RetryDelayMs, resp.status,
                                             None, jitter))
                ELSE 0)
    ELSE Branch("retry", "", None,
                ComputeRetryDelayMs(attempt, RetryDelayMs, resp.status,
                    IF resp.status \in RETRY_AFTER_STATUSES
                    THEN ParseRetryAfterMs(resp.retryAfter) ELSE None,
                    jitter))

\* the soft rate-limit branch of a decoded dict
OnSoftRateLimit(resp, attempt, retries, jitter) ==
    LET body_status == BodyErrorCode(resp.body) IN
    IF attempt >= retries
    THEN Branch("raise", "HttpError", body_status,
                Max(FINAL_RATE_LIMIT_COOLDOWN_MS,
                    ComputeRetryDelayMs(attempt, RetryDelayMs, body_status,
                                        None, jitter)))
    ELSE Branch("retry", "", None,
                ComputeRetryDelayMs(attempt, RetryDelayMs, body_status,
                                    ParseRetryAfterMs(resp.retryAfter), jitter))

OnJsonDecodeErrorRaises(attempt, retries, jitter) ==
    Branch("raise", "RuntimeError", None, 0)

\* except json.JSONDecodeError
OnJsonDecodeError(attempt, retries, jitter) ==
    IF attempt >= retries
    THEN Branch("raise", "RuntimeError", None, 0)
    ELSE Branch("retry", "", None,
                ComputeRetryDelayMs(attempt, RetryDelayMs, None, None, jitter))

\* except url_error.URLError / except Exception (the same steps)
OnException(resp, attempt, retries, jitter) ==
    LET retryable == IsRetryableNetworkError(resp.exc) IN
    IF GivesUp(attempt, retries, retryable)
    THEN Branch("raise", "RuntimeError", None,
                IF FinalNetworkExtends(retryable)
                THEN Max(FINAL_NETWORK_COOLDOWN_MS,
                         ComputeRetryDelayMs(attempt, RetryDelayMs, None, None,
                                             jitter))
                ELSE 0)
    ELSE Branch("retry", "", None,
                ComputeRetryDelayMs(attempt, RetryDelayMs, None, None, jitter))

\* the body of the for loop after _request_once, for one attempt
Outcome(resp, expect, attempt, retries, jitter) ==
    IF resp.kind = "exc" THEN OnException(resp, attempt, retries, jitter)
    ELSE IF resp.status >= 400 THEN OnHttpError(resp, attempt, retries, jitter)
    ELSE IF expect = "text" THEN Branch("return", "", None, 0)
    ELSE IF BodyIsBlank(resp.body) THEN Branch("return", "", None, 0)
    ELSE IF ~BodyParses(resp.body) THEN OnJsonDecodeError(attempt, retries, jitter)
    ELSE IF BodyIsDict(resp.body) /\ IsSoftRateLimit(resp.body)
         THEN OnSoftRateLimit(resp, attempt, retries, jitter)
    ELSE Branch("return", "", None, 0)

(***************************************************************************)
(* Tasks, report items and the final sort.                                 *)
(***************************************************************************)
Modes == {"url", "commentId", "fileName", "anime", ""}
Formats == {"xml", "json"}

EnabledTasksRenumbered(n, disabled) ==
    [k \in 1..Cardinality((1..n) \ disabled) |-> k]

\* tasks = [task for task in tasks if not task["disabled"]], by task["index"]
EnabledTasks(n, disabled) ==
    SelectSeq([i \in 1..n |-> i], LAMBDA i : i \notin disabled)

\* the fields of a normalized task that _task_mode reads
NoFields == [url |-> "", commentId |-> None, fileName |-> "", anime |-> ""]

\* a task of the given mode with no other field set
TaskOf(mode) ==
    CASE mode = "url" -> [NoFields EXCEPT !.url = "u"]
      [] mode = "commentId" -> [NoFields EXCEPT !.commentId = 7]
      [] mode = "fileName" -> [NoFields EXCEPT !.fileName = "f"]
      [] mode = "anime" -> [NoFields EXCEPT !.anime = "a"]
      [] OTHER -> NoFields

\* what _normalize_task can make of a raw task's four fields: a stripped
\* string or "", an integer (0 included) or None
TaskFieldSets ==
    [url : {"", "u"}, commentId : {None, 0, 7}, fileName : {"", "f"},
     anime : {"", "a"}]

TaskModeFileNameFirst(task) ==
    IF task.url # "" THEN "url"
    ELSE IF task.fileName # "" THEN "fileName"
    ELSE IF task.commentId \notin {None, 0} THEN "commentId"
    ELSE IF task.anime # "" THEN "anime"
    ELSE ""

\* _task_mode: the first truthy field of url, commentId, fileName, anime
TaskMode(task) ==
    IF task.url # "" THEN "url"
    ELSE IF task.commentId \notin {None, 0} THEN "commentId"
    ELSE IF task.fileName # "" THEN "fileName"
    ELSE IF task.anime # "" THEN "anime"
    ELSE ""

FirstCallLookup(mode) == "lookup"

\* the first request of _process_task for a mode
FirstCall(mode) == IF mode \in {"fileName", "anime"} THEN "lookup" ELSE "fetch"

\* expect= of the call: lookups are JSON, a fetch is text for xml
Expect(kind, fmt) ==
    IF kind = "fetch" /\ fmt = "xml" THEN "text" ELSE "json"

\* the lookup's data has success, a first match/episode and an episodeId
LookupFound(body) == body = "dict_ok"

\* data.get("matches", [None])[0] / data.get("animes", [None])[0]: the key
\* holds a list, and the list is empty
FirstOfEmptyList(body) == body = "dict_emptylist"

NotFoundText(mode) ==
    IF mode = "fileName" THEN "match not found: <fileName>"
    ELSE "search/episodes not found: <anime>"

\* str(exc) of what a resolver raises on the data of its lookup
LookupErrorText(mode, body) ==
    IF ~(BodyIsBlank(body) \/ BodyIsDict(body)) THEN "object has no attribute 'get'"
    ELSE IF FirstOfEmptyList(body) THEN "list index out of range"
    ELSE NotFoundText(mode)

\* result.get("count") works: the result is a str or a dict
CountReadable(expect, body) ==
    expect = "text" \/ BodyIsBlank(body) \/ BodyIsDict(body)

SuccessItem(index) == [index |-> index, status |-> "success", error |-> ""]
FailedItem(index, error) == [index |-> index, status |-> "failed", error |-> error]

RECURSIVE InsertByIndex(_, _)
\* one step of the stable sort: item goes after every item with index <= its own
InsertByIndex(sorted, item) ==
    IF sorted = << >> THEN << item >>
    ELSE IF sorted[Len(sorted)].index <= item.index THEN Append(sorted, item)
    ELSE Append(InsertByIndex(SubSeq(sorted, 1, Len(sorted) - 1), item),
                sorted[Len(sorted)])

RECURSIVE SortByIndexFrom(_, _)
SortByIndexFrom(items, k) ==
    IF k = 0 THEN << >>
    ELSE InsertByIndex(SortByIndexFrom(items, k - 1), items[k])

SortByIndexUnsorted(items) == items

\* report["items"].sort(key=lambda item: item.get("index", 0))
SortByIndex(items) == SortByIndexFrom(items, Len(items))

ExitCodeFailedFirst(report_cancelled, failed) ==
    IF failed > 0 THEN 2 ELSE IF report_cancelled THEN 130 ELSE 0

\* the return value of run_download after the report is written
ExitCode(report_cancelled, failed) ==
    IF report_cancelled THEN 130 ELSE IF failed > 0 THEN 2 ELSE 0

(***************************************************************************)
(* The shared rate-limit gate.                                             *)
(***************************************************************************)
ExtendedGateOverwrite(until, target) == target

\* if target > _RATE_LIMIT_UNTIL_MONOTONIC: _RATE_LIMIT_UNTIL_MONOTONIC = target
ExtendedGate(until, target) == IF target > until THEN target ELSE until

GateIsOpenNever(until, t) == FALSE

GateIsOpenAlways(until, t) == TRUE

\* wait_sec <= 0 in _wait_for_shared_retry_gate
GateIsOpen(until, t) == until - t <= 0

\* if wait_ms <= 0: return; target = time.monotonic() + (wait_ms / 1000)
ExtendTarget(t, wait_ms) == IF wait_ms <= 0 THEN None ELSE t + wait_ms

NextPointerStuck(pointer) == pointer

\* next_pointer += 1
NextPointerAfter(pointer) == pointer + 1

AfterTaskPcDiesOnFailure(status) == IF status = "failed" THEN "exit" ELSE "loop"

IsCancelledNever(flag) == FALSE

\* is_cancelled(): the caller's flag as it is at the call
IsCancelled(flag) == flag

\* run_task returns to worker's while loop, whether the task succeeded or failed
AfterTaskPc(status) == "loop"

(***************************************************************************)
(* Output naming: _render_output_stem and what it calls.  Text is a        *)
(* sequence of characters; "xml" stands for those three letters.           *)
(***************************************************************************)
NAME_MAX_LEN == 120
Chars == {"a", "b", "/", ".", "xml"}
BaseNames == UNION {[1..k -> Chars] : k \in 1..MaxBaseLen}
NamingRules == {"{index:03d}_{base}", "{base}"}

\* the keys of the values dict of _render_output_stem
ValueFields == {"index", "base", "name", "mode", "ext", "url", "anime", "episode",
                "commentId", "animeTitle", "episodeTitle"}

\* the replacement fields a naming rule names
RuleFields(rule) ==
    CASE rule = "{index:03d}_{base}" -> {"index", "base"}
      [] rule = "{base}" -> {"base"}
      [] rule = "{nope}_{base}" -> {"nope", "base"}

\* rule.format_map(values) raises no KeyError
RuleFieldsKnown(rule) == RuleFields(rule) \subseteq ValueFields

\* format(index, "03d") for a one-digit index
IndexText(index) ==
    << "0", "0", << "0", "1", "2", "3", "4", "5", "6", "7", "8", "9" >>[index + 1] >>

\* rule.format_map(values)
RenderRule(rule, index, base) ==
    IF rule = "{base}" THEN base ELSE IndexText(index) \o << "_" >> \o base

\* the position of the first "/" of text, Len(text) + 1 without one
FirstSlash(text) ==
    IF \E i \in 1..Len(text) : text[i] = "/"
    THEN CHOOSE i \in 1..Len(text) :
            text[i] = "/" /\ \A j \in 1..(i - 1) : text[j] # "/"
    ELSE Len(text) + 1

RECURSIVE PathParts(_)
\* the components of Path(text): split at "/", empty and "." ones dropped
PathParts(text) ==
    IF text = << >> THEN << >>
    ELSE LET i == FirstSlash(text)
             head == SubSeq(text, 1, i - 1)
             rest == SubSeq(text, i + 1, Len(text))
         IN  (IF head \in {<< >>, << "." >>} THEN << >> ELSE << head >>)
                 \o PathParts(rest)

\* Path(text).name: the last component
PathName(text) ==
    IF PathParts(text) = << >> THEN << >>
    ELSE PathParts(text)[Len(PathParts(text))]

\* a trailing .xml (or .json) is cut off
StripKnownExt(stem) ==
    IF Len(stem) >= 2 /\ SubSeq(stem, Len(stem) - 1, Len(stem)) = << ".", "xml" >>
    THEN SubSeq(stem, 1, Len(stem) - 2)
    ELSE stem

\* the characters str.isspace() holds of: the space, the tab (one of those
\* below 32) and "U+3000", the ideographic space (one of those above 127)
WhitespaceChars == {" ", "\t", "U+3000"}
\* ord(ch) < 32
ControlChars == {"\t"}
\* invalid = '<>:"/\\|?*'
InvalidChars == {"<", ">", ":", "\"", "/", "\\", "|", "?", "*"}

RECURSIVE LStrip(_)
\* leading whitespace removed
LStrip(text) ==
    IF text # << >> /\ text[1] \in WhitespaceChars THEN LStrip(Tail(text)) ELSE text

RECURSIVE RStrip(_)
\* trailing whitespace removed
RStrip(text) ==
    IF text # << >> /\ text[Len(text)] \in WhitespaceChars
    THEN RStrip(SubSeq(text, 1, Len(text) - 1))
    ELSE text

\* str.strip()
Strip(text) == LStrip(RStrip(text))

RECURSIVE RStripDotSpace(_)
\* rstrip(". ")
RStripDotSpace(name) ==
    IF name # << >> /\ name[Len(name)] \in {".", " "}
    THEN RStripDotSpace(SubSeq(name, 1, Len(name) - 1))
    ELSE name

\* " ".join(name.split()): the words stay, and each run of whitespace between
\* two words becomes one space
CollapseWhitespace(name) ==
    LET text == Strip(name)
        kept == SelectSeq([i \in 1..Len(text) |-> i],
                          LAMBDA i : \/ text[i] \notin WhitespaceChars
                                     \/ text[i - 1] \notin WhitespaceChars)
    IN  [k \in 1..Len(kept) |->
            IF text[kept[k]] \in WhitespaceChars THEN " " ELSE text[kept[k]]]

Lowers == << "a", "b", "c", "d", "e", "f", "g", "h", "i", "j", "k", "l", "m",
             "n", "o", "p", "q", "r", "s", "t", "u", "v", "w", "x", "y", "z" >>
Uppers == << "A", "B", "C", "D", "E", "F", "G", "H", "I", "J", "K", "L", "M",
             "N", "O", "P", "Q", "R", "S", "T", "U", "V", "W", "X", "Y", "Z" >>

\* name.upper()
Upper(name) ==
    [i \in 1..Len(name) |->
        IF \E k \in 1..Len(Lowers) : Lowers[k] = name[i]
        THEN Uppers[CHOOSE k \in 1..Len(Lowers) : Lowers[k] = name[i]]
        ELSE name[i]]

\* reserved = {"CON", "PRN", "AUX", "NUL", "COM1".."COM9", "LPT1".."LPT9"}
ReservedNames ==
    {<< "C", "O", "N" >>, << "P", "R", "N" >>, << "A", "U", "X" >>,
     << "N", "U", "L" >>}
    \cup {<< "C", "O", "M", d >> : d \in {"1", "2", "3", "4", "5", "6", "7", "8", "9"}}
    \cup {<< "L", "P", "T", d >> : d \in {"1", "2", "3", "4", "5", "6", "7", "8", "9"}}

\* the fallback name "danmu"
FallbackName == << "d", "a", "n", "m", "u" >>

PrefixReservedNever(name) == name

\* if name.upper() in reserved: name = f"_{name}"
PrefixReserved(name) ==
    IF Upper(name) \in ReservedNames THEN << "_" >> \o name ELSE name

\* _sanitize_windows_filename
SanitizeWindowsFilename(raw_name) ==
    LET name0 == IF Strip(raw_name) = << >> THEN FallbackName ELSE Strip(raw_name)
        cleaned == [i \in 1..Len(name0) |->
                       IF name0[i] \in InvalidChars \cup ControlChars THEN "_"
                       ELSE name0[i]]
        stripped == Strip(RStripDotSpace(cleaned))
        prefixed == PrefixReserved(CollapseWhitespace(stripped))
        named == IF prefixed = << >> THEN FallbackName ELSE prefixed
    IN  IF Len(named) > NAME_MAX_LEN THEN SubSeq(named, 1, NAME_MAX_LEN) ELSE named

\* _render_output_stem
RenderOutputStem(rule, index, base_name) ==
    LET rendered == RenderRule(rule, index, base_name)
        stem0 == IF rendered = << >> THEN base_name ELSE rendered
        stem1 == StripKnownExt(PathName(stem0))
    IN  SanitizeWindowsFilename(IF stem1 = << >> THEN base_name ELSE stem1)

(***************************************************************************)
(* The progress lines run_download and run_task emit: a line is its fixed  *)
(* text and the number it carries.                                         *)
(***************************************************************************)
NoTasksLine == << "No tasks to run.", 0 >>
TotalLine(n) == << "Total tasks: ", n >>
StartLine(index) == << "Start... ", index >>
OkLine(index) == << "OK -> ", index >>
FailedLine(index) == << "FAILED -> ", index >>

EmitDropped(lines, line) == lines

\* emit(line)
Emit(lines, line) == lines (+) SetToBag({line})

\* output_path = Path(ctx["output_dir"]) / f"{output_stem}.{ext}", relative
\* to the output directory
OutputPath(rule, index, base_name, fmt) ==
    RenderOutputStem(rule, index, base_name) \o << ".", fmt >>

FileContentAsText(expect, body) == [as |-> "text", of |-> body]

\* content: the text as it came, or json.dumps of the decoded body ({} for a
\* blank body)
FileContent(expect, body) ==
    IF expect = "text" THEN [as |-> "text", of |-> body]
    ELSE [as |-> "json.dumps", of |-> IF BodyIsBlank(body) THEN "{}" ELSE body]

\* output_path.write_text(content): the file is created or replaced
WriteText(dir, path, content) ==
    {f \in dir : f.path # path} \cup {[path |-> path, content |-> content]}

(***************************************************************************)
(* State.                                                                  *)
(***************************************************************************)
VARIABLES
    concurrency,     \* opts["concurrency"]
    retries,         \* opts["retries"]
    disabledTasks,   \* the positions of the raw tasks whose "disabled" is set
    tasks,           \* the scheduled tasks (their index), in queue order
    backend,         \* what the backend may answer in this run
    taskKinds,       \* the (fields, format) pairs the run's tasks may have
    jitterSigns,     \* which ends of the jitter range random.randint may hit
    naming_rule,     \* the run's naming template
    bases,           \* the base name _derive_base_name gives each raw task
    answers,         \* the response fixed for each raw task (NoResp: any)
    api_root,        \* ctx["api_root"], the URL every request starts with
    setup,           \* how the run's setup goes: "ok" or what makes it raise
    main,            \* run_download's own position
    cancelled,       \* what is_cancelled() returns
    now,             \* time.monotonic(), ms
    rateLimitUntil,  \* _RATE_LIMIT_UNTIL_MONOTONIC, ms
    next_pointer,    \* the queue cursor
    report,          \* the report: items, success, failed, cancelled
    reportWritten,   \* download-report.json has been written
    exitCode,        \* run_download's return value (None while running)
    emitted,         \* the bag of progress lines emit() was called with
    files,           \* the output directory: each file's path and content
    pc,              \* each worker's position
    cur,             \* each worker's current task
    call,            \* each worker's current request: "lookup" | "fetch" | ""
    attempt,         \* each worker's attempt index in _request_with_retry
    pend,            \* each worker's pending gate extension
    wakeAt,          \* when each sleeping worker's sleep ends
    ret,             \* how each worker's last attempt / call ended
    handed,          \* history: queue positions next_task handed out, in order
    reqCount,        \* history: requests issued in the worker's current call
    answered,        \* history: the status of each response of the current call
    extCalls,        \* history: gate extensions made in the worker's current call
    gateOk,          \* history: the gate wait returned since the last request
    gateEntry,       \* history: the deadline when the worker entered the gate wait
    connection_cache, \* each worker thread's _THREAD_LOCAL_STATE.connection_cache
    conn,            \* the connection of each worker's current or last request
    proposedMax,     \* history: the latest deadline proposed or initially set
    cancelStarted,   \* history: tasks started when the flag was set (None: not set)
    probe            \* the arguments and result of a function applied on its own

vars == << concurrency, retries, disabledTasks, tasks, backend, taskKinds, jitterSigns, setup,
           naming_rule, bases, answers, api_root,
           main, cancelled, now,
           rateLimitUntil, next_pointer, report, reportWritten, exitCode, files,
           emitted,
           pc, cur, call, attempt, pend, wakeAt, ret, handed, reqCount, extCalls,
           answered,
           gateOk, gateEntry, connection_cache, conn, proposedMax, cancelStarted,
           probe >>

optV == << concurrency, retries, disabledTasks, backend, taskKinds, jitterSigns,
          setup, naming_rule, bases, answers, api_root >>
cfgV == << optV, tasks >>
cancelV == << cancelled, cancelStarted >>
runV == << main, reportWritten, exitCode >>
queueV == << next_pointer, handed >>
outV == << report, files, emitted >>
gateV == << rateLimitUntil, proposedMax >>
connV == << connection_cache, conn >>

Workers == 1..MaxConcurrency
Active == 1..concurrency

NoTask == [index |-> 0, mode |-> "", fmt |-> "", task |-> NoFields]
NoPend == [target |-> 0, wait_ms |-> 0]
NoResp == [kind |-> "none", status |-> None, body |-> "empty",
           retryAfter |-> None, exc |-> "", will_close |-> FALSE]
NoRet == [act |-> "", exc |-> "", status |-> None, resp |-> NoResp, at |-> 0]
NoProbe == [fn |-> ""]

\* every task has the same one-letter base name
DefaultBases == [i \in 1..MaxRawTasks |-> << "a" >>]
\* no task's response is fixed
NoAnswers == [i \in 1..MaxRawTasks |-> NoResp]

\* how setup can go: well, _normalize_task raises on a task's format, or
\* output_dir.mkdir raises
Setups == {"ok", "bad_format", "no_output_dir"}

\* ctx["timeout_ms"] / 1000
TimeoutSec == 45

\* conn_key = (scheme, netloc, timeout_sec)
ConnKey(url) == << url.scheme, url.netloc, TimeoutSec >>

\* a connection object: the thread that created it, its serial number among
\* the connections of that thread, whether it has served a request before
\* the one it serves or served last, and how its last use went: "new" (none
\* yet), "request" (in use), "idle" (completed), "raised", "will_close"
Connection(owner, serial, state) ==
    [owner |-> owner, serial |-> serial, reused |-> FALSE, state |-> state]
NoConn == Connection(0, 0, "none")
\* an empty cache
NoConnections == [k \in {} |-> NoConn]

\* _thread_connection_cache: the thread whose cache worker w sees, its own
ThreadConnectionCache(w) == w

CloseThreadConnectionKeeps(cache, conn_key) == cache

\* _close_thread_connection: cache.pop(conn_key, None)
CloseThreadConnection(cache, conn_key) ==
    [k \in DOMAIN cache \ {conn_key} |-> cache[k]]

\* _get_thread_connection: the cached connection of the key, or a new one
\* that is put into the cache
GetThreadConnection(cache, conn_key, w, serial) ==
    IF conn_key \in DOMAIN cache THEN cache
    ELSE [k \in DOMAIN cache \cup {conn_key} |->
             IF k = conn_key THEN Connection(w, serial, "new") ELSE cache[k]]

\* the object under the key is used: its state changes where it is
Use(cache, conn_key, state) ==
    IF conn_key \in DOMAIN cache
    THEN LET object == cache[conn_key]
         IN  [cache EXCEPT ![conn_key] =
                 [object EXCEPT !.state = state,
                                !.reused = IF state = "request"
                                           THEN object.state = "idle" ELSE @]]
    ELSE cache

\* the state run_download starts from, whatever its inputs
InitRun ==
    /\ main = "setup"
    /\ tasks = << >>
    /\ cancelled = FALSE
    /\ cancelStarted = None
    /\ now = StartClockMs
    /\ next_pointer = 0
    /\ report = [items |-> << >>, success |-> 0, failed |-> 0, cancelled |-> FALSE]
    /\ reportWritten = FALSE
    /\ exitCode = None
    /\ files = {}
    /\ emitted = EmptyBag
    /\ pc = [w \in Workers |-> "idle"]
    /\ cur = [w \in Workers |-> NoTask]
    /\ call = [w \in Workers |-> ""]
    /\ attempt = [w \in Workers |-> 0]
    /\ pend = [w \in Workers |-> NoPend]
    /\ wakeAt = [w \in Workers |-> 0]
    /\ ret = [w \in Workers |-> NoRet]
    /\ handed = << >>
    /\ reqCount = [w \in Workers |-> 0]
    /\ extCalls = [w \in Workers |-> 0]
    /\ answered = [w \in Workers |-> << >>]
    /\ gateOk = [w \in Workers |-> FALSE]
    /\ gateEntry = [w \in Workers |-> 0]
    /\ connection_cache = [w \in Workers |-> NoConnections]
    /\ conn = [w \in Workers |-> NoConn]
    /\ proposedMax = rateLimitUntil

(***************************************************************************)
(* run_download's own thread.                                              *)
(***************************************************************************)
\* up to thread.start(): output_dir.mkdir or _normalize_task may raise, which
\* ends run_download; the disabled tasks are dropped; no tasks returns 0 at
\* once; else the pool starts
Setup ==
    /\ main = "setup"
    /\ IF setup # "ok"
       THEN /\ main' = "aborted"
            /\ exitCode' = exitCode
            /\ pc' = pc
            /\ emitted' = emitted
            /\ tasks' = tasks
       ELSE /\ tasks' = EnabledTasks(MaxRawTasks, disabledTasks)
            /\ IF tasks' = << >>
               THEN /\ main' = "done"
                    /\ exitCode' = 0
                    /\ pc' = pc
                    /\ emitted' = Emit(emitted, NoTasksLine)
               ELSE /\ main' = "running"
                    /\ exitCode' = exitCode
                    /\ pc' = [w \in Workers |->
                                 IF w \in Active THEN "loop" ELSE "idle"]
                    /\ emitted' = Emit(emitted, TotalLine(Len(tasks')))
    /\ UNCHANGED << optV, probe, queueV, report, files, gateV, reportWritten, cancelV, now,
                    cur, call, attempt, pend, wakeAt, ret, reqCount, extCalls, answered,
                    gateOk, gateEntry, connV >>

\* for thread in threads: thread.join()
Join ==
    /\ main = "running"
    /\ \A w \in Active : pc[w] = "exit"
    /\ main' = "joined"
    /\ UNCHANGED << cfgV, probe, queueV, outV, gateV, reportWritten, exitCode, cancelV,
                    now, pc, cur, call, attempt, pend, wakeAt, ret, reqCount,
                    extCalls, answered, gateOk, gateEntry, connV >>

\* sort the items, read the flag, write the report, return the exit code
Finalize ==
    /\ main = "joined"
    /\ report' = [report EXCEPT !.items = SortByIndex(report.items),
                                !.cancelled = IsCancelled(cancelled)]
    /\ reportWritten' = TRUE
    /\ exitCode' = ExitCode(IsCancelled(cancelled), report.failed)
    /\ main' = "done"
    /\ UNCHANGED << cfgV, probe, queueV, gateV, files, emitted, cancelV, now, pc, cur,
                    call, attempt, pend, wakeAt, ret, reqCount, extCalls, answered,
                    gateOk, gateEntry, connV >>

\* the tasks that got past run_task's is_cancelled() checks so far: those
\* with an item and those a worker is processing
Started ==
    Len(report.items)
        + Cardinality({w \in Workers : cur[w] # NoTask /\ pc[w] # "run_task"})

\* the caller sets the cancellation flag
Cancel ==
    /\ main \notin {"done", "aborted"}
    /\ ~cancelled
    /\ cancelled' = TRUE
    /\ cancelStarted' = Started
    /\ UNCHANGED << cfgV, probe, runV, queueV, outV, gateV, now, pc, cur, call, attempt,
                    pend, wakeAt, ret, reqCount, extCalls, answered,
                    gateOk, gateEntry, connV >>

(***************************************************************************)
(* The worker loop and run_task.                                           *)
(***************************************************************************)
\* while True: if is_cancelled(): return
WorkerLoop(w) ==
    /\ pc[w] = "loop"
    /\ pc' = [pc EXCEPT ![w] = IF IsCancelled(cancelled) THEN "exit"
                                ELSE "next_task"]
    /\ UNCHANGED << cfgV, probe, runV, queueV, outV, gateV, cancelV, now, cur, call,
                    attempt, pend, wakeAt, ret, reqCount, extCalls, answered,
                    gateOk, gateEntry, connV >>

\* next_task() under pointer_lock; None ends the worker.  The task's fields are
\* first read once it is claimed: they are drawn here.
NextTask(w) ==
    /\ pc[w] = "next_task"
    /\ IF next_pointer >= Len(tasks)
       THEN /\ pc' = [pc EXCEPT ![w] = "exit"]
            /\ UNCHANGED << next_pointer, cur, handed >>
       ELSE /\ \E kind \in taskKinds :
                  cur' = [cur EXCEPT ![w] = [index |-> tasks[next_pointer + 1],
                                             mode |-> TaskMode(kind[1]),
                                             fmt |-> kind[2], task |-> kind[1]]]
            /\ handed' = Append(handed, next_pointer + 1)
            /\ next_pointer' = NextPointerAfter(next_pointer)
            /\ pc' = [pc EXCEPT ![w] = "run_task"]
    /\ UNCHANGED << cfgV, probe, runV, outV, gateV, cancelV, now, call, attempt, pend,
                    wakeAt, ret, reqCount, extCalls, answered,
                    gateOk, gateEntry, connV >>

\* run_task up to the first request: the cancellation checks, the Start line,
\* _task_mode; a task without a mode raises before any request
RunTask(w) ==
    /\ pc[w] = "run_task"
    /\ IF IsCancelled(cancelled)
       THEN /\ pc' = [pc EXCEPT ![w] = "loop"]
            /\ cur' = [cur EXCEPT ![w] = NoTask]
            /\ UNCHANGED << call, ret, emitted, gateEntry >>
       ELSE /\ emitted' = Emit(emitted, StartLine(cur[w].index))
            /\ IF cur[w].mode = ""
               THEN /\ pc' = [pc EXCEPT ![w] = "returned"]
                    /\ ret' = [ret EXCEPT ![w] =
                                  [act |-> "raise", exc |-> "RuntimeError",
                                   status |-> None, resp |-> NoResp, at |-> now]]
                    /\ UNCHANGED << call, cur, gateEntry >>
               ELSE /\ call' = [call EXCEPT ![w] = FirstCall(cur[w].mode)]
                    /\ pc' = [pc EXCEPT ![w] = "gate"]
                    /\ gateEntry' = [gateEntry EXCEPT ![w] = rateLimitUntil]
                    /\ UNCHANGED << cur, ret >>
    /\ UNCHANGED << cfgV, probe, runV, queueV, report, files, gateV, cancelV, now, attempt,
                    pend, wakeAt, reqCount, extCalls, answered, gateOk, connV >>

(***************************************************************************)
(* _request_with_retry, one attempt at a time.                             *)
(***************************************************************************)
\* _wait_for_shared_retry_gate: read the deadline and the clock under the lock
GateCheck(w) ==
    /\ pc[w] = "gate"
    /\ IF GateIsOpen(rateLimitUntil, now)
       THEN /\ pc' = [pc EXCEPT ![w] = "send"]
            /\ gateOk' = [gateOk EXCEPT ![w] = TRUE]
            /\ wakeAt' = wakeAt
       ELSE /\ pc' = [pc EXCEPT ![w] = "gate_sleep"]
            /\ wakeAt' = [wakeAt EXCEPT ![w] =
                              now + Min(rateLimitUntil - now, GateSliceMs)]
            /\ gateOk' = gateOk
    /\ UNCHANGED << cfgV, probe, runV, queueV, outV, gateV, cancelV, now, cur, call,
                    attempt, pend, ret, reqCount, extCalls, answered, gateEntry, connV >>

\* time.sleep(min(wait_sec, 1.0)) is over: look at the gate again
GateWake(w) ==
    /\ pc[w] = "gate_sleep"
    /\ now >= wakeAt[w]
    /\ pc' = [pc EXCEPT ![w] = "gate"]
    /\ wakeAt' = [wakeAt EXCEPT ![w] = 0]
    /\ UNCHANGED << cfgV, probe, runV, queueV, outV, gateV, cancelV, now, cur, call,
                    attempt, pend, ret, reqCount, extCalls, answered,
                    gateOk, gateEntry, connV >>

\* _request_once gets the thread's connection and sends the request, unless
\* the URL is one it raises on first
SendRequest(w) ==
    /\ pc[w] = "send"
    /\ pc' = [pc EXCEPT ![w] = "await"]
    /\ reqCount' = [reqCount EXCEPT ![w] =
                        IF RequestUrlValid(api_root) THEN @ + 1 ELSE @]
    /\ gateEntry' = [gateEntry EXCEPT ![w] = 0]
    /\ IF RequestUrlValid(api_root)
       THEN LET t == ThreadConnectionCache(w)
                conn_key == ConnKey(api_root)
                cache == Use(GetThreadConnection(connection_cache[t], conn_key,
                                                 w, conn[w].serial + 1),
                             conn_key, "request")
            IN  /\ connection_cache' = [connection_cache EXCEPT ![t] = cache]
                /\ conn' = [conn EXCEPT ![w] = cache[conn_key]]
       ELSE UNCHANGED connV
    /\ UNCHANGED << cfgV, probe, runV, queueV, outV, gateV, cancelV, now, cur, call,
                    attempt, pend, wakeAt, ret, extCalls, answered, gateOk >>

\* the responses a call can get: only a lookup reads the match fields
ResponsesFor(kind) ==
    IF kind = "lookup" THEN backend
    ELSE {r \in backend : r.body \notin {"dict_nomatch", "dict_emptylist"}}

\* the responses worker w's request can get
AnswersFor(w) ==
    IF ~RequestUrlValid(api_root) THEN {ExcResp(InvalidUrlError(api_root))}
    ELSE IF answers[cur[w].index] = NoResp THEN ResponsesFor(call[w])
    ELSE {answers[cur[w].index]}

\* _request_once returns or raises; the attempt's branch is taken up to the
\* clock read of _extend_shared_retry_gate, when the branch calls it
Receive(w) ==
    /\ pc[w] = "await"
    /\ \E resp \in AnswersFor(w) :
       \E jitter \in Jitters(jitterSigns, attempt[w], RetryDelayMs) :
          LET out == Outcome(resp, Expect(call[w], cur[w].fmt), attempt[w],
                             retries, jitter)
              target == ExtendTarget(now, out.wait_ms)
          IN  /\ ret' = [ret EXCEPT ![w] = [act |-> out.act, exc |-> out.exc,
                                            status |-> out.status, resp |-> resp,
                                            at |-> now]]
              /\ answered' = [answered EXCEPT ![w] = Append(@, resp.status)]
              /\ IF out.wait_ms # 0
                 THEN /\ pend' = [pend EXCEPT ![w] =
                                     [target |-> target, wait_ms |-> out.wait_ms]]
                      /\ proposedMax' = IF out.wait_ms > 0
                                        THEN Max(proposedMax, now + out.wait_ms)
                                        ELSE proposedMax
                      /\ pc' = [pc EXCEPT ![w] = "extend"]
                 ELSE /\ pend' = pend
                      /\ proposedMax' = proposedMax
                      /\ pc' = [pc EXCEPT ![w] = "returned"]
              /\ IF RequestUrlValid(api_root)
                 THEN LET t == ThreadConnectionCache(w)
                          conn_key == ConnKey(api_root)
                          state == IF resp.kind = "exc" THEN "raised"
                                   ELSE IF resp.will_close THEN "will_close"
                                   ELSE "idle"
                          used == Use(connection_cache[t], conn_key, state)
                      IN  /\ connection_cache' =
                                [connection_cache EXCEPT ![t] =
                                    IF state = "idle" THEN used
                                    ELSE CloseThreadConnection(used, conn_key)]
                          /\ conn' = [conn EXCEPT ![w] = [@ EXCEPT !.state = state]]
                 ELSE UNCHANGED connV
    /\ gateOk' = [gateOk EXCEPT ![w] = FALSE]
    /\ UNCHANGED << cfgV, probe, runV, queueV, outV, rateLimitUntil, cancelV, now, cur,
                    call, attempt, wakeAt, reqCount, extCalls, gateEntry >>

\* _extend_shared_retry_gate under the lock (nothing when wait_ms <= 0), then
\* time.sleep(wait_ms / 1000) starts (a retry) or the caller goes on
ExtendGate(w) ==
    /\ pc[w] = "extend"
    /\ rateLimitUntil' = IF pend[w].target = None THEN rateLimitUntil
                         ELSE ExtendedGate(rateLimitUntil, pend[w].target)
    /\ extCalls' = [extCalls EXCEPT ![w] = @ + 1]
    /\ pend' = [pend EXCEPT ![w] = NoPend]
    /\ IF ret[w].act = "retry"
       THEN /\ pc' = [pc EXCEPT ![w] = "retry_sleep"]
            /\ wakeAt' = [wakeAt EXCEPT ![w] = now + pend[w].wait_ms]
       ELSE /\ pc' = [pc EXCEPT ![w] = "returned"]
            /\ wakeAt' = wakeAt
    /\ UNCHANGED << cfgV, probe, runV, queueV, outV, proposedMax, cancelV, now, cur,
                    call, attempt, ret, reqCount, gateOk, gateEntry, connV, answered >>

\* the sleep is over: the for loop's next attempt, or "Request failed."
RetryWake(w) ==
    /\ pc[w] = "retry_sleep"
    /\ now >= wakeAt[w]
    /\ wakeAt' = [wakeAt EXCEPT ![w] = 0]
    /\ IF attempt[w] + 1 <= retries
       THEN /\ attempt' = [attempt EXCEPT ![w] = @ + 1]
            /\ pc' = [pc EXCEPT ![w] = "gate"]
            /\ gateEntry' = [gateEntry EXCEPT ![w] = rateLimitUntil]
            /\ ret' = [ret EXCEPT ![w] = NoRet]
       ELSE /\ gateEntry' = gateEntry
            /\ attempt' = attempt
            /\ pc' = [pc EXCEPT ![w] = "returned"]
            /\ ret' = [ret EXCEPT ![w] = [act |-> "raise", exc |-> "RuntimeError",
                                          status |-> None, resp |-> NoResp,
                                          at |-> now]]
    /\ UNCHANGED << cfgV, probe, runV, queueV, outV, gateV, cancelV, now, cur, call,
                    pend, reqCount, extCalls, answered, gateOk, connV >>

\* the monotonic clock reaches the next moment a sleep ends
Tick ==
    LET wakes == {wakeAt[w] : w \in {x \in Workers :
                     pc[x] \in {"gate_sleep", "retry_sleep"} /\ wakeAt[x] > now}}
    IN  /\ wakes # {}
        /\ now' = CHOOSE t \in wakes : \A u \in wakes : t <= u
        /\ UNCHANGED << cfgV, probe, runV, queueV, outV, gateV, cancelV, pc, cur, call,
                        attempt, pend, wakeAt, ret, reqCount, extCalls, answered,
                        gateOk, gateEntry, connV >>

(***************************************************************************)
(* _process_task and run_task after a call of _request_with_retry ended.   *)
(***************************************************************************)
\* str(exc) as run_task records it
ErrorText(r) ==
    IF r.exc = "HttpError" THEN "HTTP error; body="
    ELSE IF r.resp.kind = "none" THEN "Task missing supported fields"
    ELSE IF r.resp.kind = "exc" THEN "network error"
    ELSE "Invalid JSON response"

EndTaskUncounted(w, item) ==
    /\ report' = [report EXCEPT !.items = Append(@, item)]
    /\ emitted' = Emit(emitted, IF item.status = "success" THEN OkLine(item.index)
                                ELSE FailedLine(item.index))
    /\ pc' = [pc EXCEPT ![w] = AfterTaskPc(item.status)]
    /\ cur' = [cur EXCEPT ![w] = NoTask]
    /\ call' = [call EXCEPT ![w] = ""]

\* the task ends: its item is appended under report_lock, its OK or FAILED
\* line is emitted, the worker loops
EndTask(w, item) ==
    /\ report' = [report EXCEPT
           !.items = Append(@, item),
           !.success = IF item.status = "success" THEN @ + 1 ELSE @,
           !.failed = IF item.status = "failed" THEN @ + 1 ELSE @]
    /\ emitted' = Emit(emitted, IF item.status = "success" THEN OkLine(item.index)
                                ELSE FailedLine(item.index))
    /\ pc' = [pc EXCEPT ![w] = AfterTaskPc(item.status)]
    /\ cur' = [cur EXCEPT ![w] = NoTask]
    /\ call' = [call EXCEPT ![w] = ""]

\* the call (or _process_task before it) raised: run_task records the failure
CallRaised(w) ==
    /\ pc[w] = "returned"
    /\ ret[w].act = "raise"
    /\ EndTask(w, FailedItem(cur[w].index, ErrorText(ret[w])))
    /\ UNCHANGED << files, gateEntry >>

\* the lookup returned: the fetch by the resolved id starts, or "not found"
LookupReturned(w) ==
    /\ pc[w] = "returned"
    /\ ret[w].act = "return"
    /\ call[w] = "lookup"
    /\ IF BodyIsDict(ret[w].resp.body) /\ LookupFound(ret[w].resp.body)
       THEN /\ call' = [call EXCEPT ![w] = "fetch"]
            /\ pc' = [pc EXCEPT ![w] = "gate"]
            /\ gateEntry' = [gateEntry EXCEPT ![w] = rateLimitUntil]
            /\ UNCHANGED << report, cur, emitted >>
       ELSE /\ EndTask(w, FailedItem(cur[w].index,
                                     LookupErrorText(cur[w].mode, ret[w].resp.body)))
            /\ gateEntry' = gateEntry
    /\ files' = files

\* the fetch returned: the output stem is rendered, the file is written, then
\* the item is recorded
FetchReturned(w) ==
    /\ pc[w] = "returned"
    /\ ret[w].act = "return"
    /\ call[w] = "fetch"
    /\ gateEntry' = gateEntry
    /\ IF ~RuleFieldsKnown(naming_rule)
       THEN /\ files' = files
            /\ EndTask(w, FailedItem(cur[w].index, "Invalid naming rule field"))
       ELSE /\ files' = WriteText(files, OutputPath(naming_rule, cur[w].index,
                                                    bases[cur[w].index], cur[w].fmt),
                                  FileContent(Expect("fetch", cur[w].fmt),
                                              ret[w].resp.body))
            /\ IF CountReadable(Expect("fetch", cur[w].fmt), ret[w].resp.body)
               THEN EndTask(w, SuccessItem(cur[w].index))
               ELSE EndTask(w, FailedItem(cur[w].index,
                                          "object has no attribute 'get'"))

\* what _process_task and run_task do once _request_with_retry has ended
CallDone(w) ==
    /\ (CallRaised(w) \/ LookupReturned(w) \/ FetchReturned(w))
    /\ attempt' = [attempt EXCEPT ![w] = 0]
    /\ ret' = [ret EXCEPT ![w] = NoRet]
    /\ reqCount' = [reqCount EXCEPT ![w] = 0]
    /\ extCalls' = [extCalls EXCEPT ![w] = 0]
    /\ answered' = [answered EXCEPT ![w] = << >>]
    /\ UNCHANGED << cfgV, probe, runV, queueV, gateV, cancelV, now, pend, wakeAt,
                    gateOk, connV >>

Next ==
    \/ Setup
    \/ Join
    \/ Finalize
    \/ Cancel
    \/ Tick
    \/ \E w \in Workers :
          \/ WorkerLoop(w)
          \/ NextTask(w)
          \/ RunTask(w)
          \/ GateCheck(w)
          \/ GateWake(w)
          \/ SendRequest(w)
          \/ Receive(w)
          \/ ExtendGate(w)
          \/ RetryWake(w)
          \/ CallDone(w)

(***************************************************************************)
(* Specifications: the same program under different inputs.                *)
(***************************************************************************)
AllTaskKinds ==
    {<< TaskOf(m), f >> : m \in Modes \ {""}, f \in Formats}
        \cup {<< NoFields, "xml" >>}

\* a backend that answers, finds no match, refuses, is busy, or is unreachable
PoolBackend ==
    {HttpResp(200, "dict_ok", None), HttpResp(200, "dict_nomatch", None),
     HttpResp(404, "empty", None), HttpResp(503, "empty", None),
     ExcResp("RuntimeError")}

\* the pool: any concurrency, any subset of the raw tasks disabled
Init ==
    /\ rateLimitUntil = 0
    /\ InitRun
    /\ concurrency \in 1..MaxConcurrency
    /\ retries \in 0..MaxRetries
    /\ disabledTasks \in SUBSET (1..MaxRawTasks)
    /\ backend = PoolBackend
    /\ setup \in Setups
    /\ naming_rule = "{index:03d}_{base}"
    /\ bases = DefaultBases
    /\ answers = NoAnswers
    /\ api_root = HttpUrl
    /\ probe = NoProbe
    /\ taskKinds = {<< TaskOf("url"), "xml" >>, << TaskOf("fileName"), "json" >>,
                    << NoFields, "xml" >>}
    /\ jitterSigns = {0}

Spec == Init /\ [][Next]_vars

\* one worker and one task, every task kind, response and jitter the model
\* knows; the gate may still be closed by an earlier run of the same process
InitRetry ==
    /\ rateLimitUntil \in {0, StartClockMs + 2 * GateSliceMs}
    /\ InitRun
    /\ concurrency = 1
    /\ retries \in 0..MaxRetries
    /\ disabledTasks = 2..MaxRawTasks
    /\ backend = Responses
    /\ setup = "ok"
    /\ naming_rule = "{index:03d}_{base}"
    /\ bases = DefaultBases
    /\ answers = NoAnswers
    /\ api_root = HttpUrl
    /\ probe = NoProbe
    /\ taskKinds = AllTaskKinds
    /\ jitterSigns = {-1, 0, 1}

SpecRetry == InitRetry /\ [][Next]_vars

\* one worker and two tasks whose fields are set in every combination, under a
\* naming template that is the default or names an unknown field, before a
\* backend that answers, finds no match, refuses or is busy
TaskBackend ==
    {HttpResp(200, "dict_ok", None), HttpResp(200, "dict_nomatch", None),
     HttpResp(404, "empty", None), HttpResp(503, "empty", None)}

InitTask ==
    /\ rateLimitUntil = 0
    /\ InitRun
    /\ concurrency = 1
    /\ retries \in 0..MaxRetries
    /\ disabledTasks = 3..MaxRawTasks
    /\ backend = TaskBackend
    /\ setup = "ok"
    /\ naming_rule \in {"{index:03d}_{base}", "{nope}_{base}"}
    /\ bases = DefaultBases
    /\ answers = NoAnswers
    /\ api_root = HttpUrl
    /\ probe = NoProbe
    /\ taskKinds = TaskFieldSets \X Formats
    /\ jitterSigns = {0}

SpecTask == InitTask /\ [][Next]_vars

\* url tasks of format xml before a backend whose response is fixed by the
\* request: the url of a task is its base name, and tasks of the same url get
\* the same response
EquivUrls == {<< "a", "/", "x" >>, << "b", "/", "x" >>}
EquivResponses ==
    {HttpResp(200, "dict_ok", None), HttpResp(200, "nondict", None),
     HttpResp(503, "empty", None)}

InitEquiv ==
    /\ rateLimitUntil = 0
    /\ InitRun
    /\ concurrency \in 1..MaxConcurrency
    /\ retries \in 0..MaxRetries
    /\ disabledTasks = {}
    /\ backend = EquivResponses
    /\ setup = "ok"
    /\ naming_rule = "{index:03d}_{base}"
    /\ bases \in [1..MaxRawTasks -> EquivUrls]
    /\ \E byUrl \in [EquivUrls -> EquivResponses] :
          answers = [i \in 1..MaxRawTasks |-> byUrl[bases[i]]]
    /\ api_root = HttpUrl
    /\ probe = NoProbe
    /\ taskKinds = {<< TaskOf("url"), "xml" >>}
    /\ jitterSigns = {0}

SpecEquiv == InitEquiv /\ [][Next]_vars

(***************************************************************************)
(* Concurrent callers of _extend_shared_retry_gate, each with any wait_ms.  *)
(***************************************************************************)
WaitChoices == {-1000, 0, FloorBusyMs, Floor429Ms}

\* a caller enters _extend_shared_retry_gate(wait_ms) and reads the clock
ExtendCall(w) ==
    /\ pc[w] = "idle"
    /\ extCalls[w] < MaxExtendCalls
    /\ \E wait_ms \in WaitChoices :
          /\ pend' = [pend EXCEPT ![w] = [target |-> ExtendTarget(now, wait_ms),
                                          wait_ms |-> wait_ms]]
          /\ proposedMax' = IF wait_ms > 0 THEN Max(proposedMax, now + wait_ms)
                            ELSE proposedMax
    /\ pc' = [pc EXCEPT ![w] = "extend"]
    /\ UNCHANGED << cfgV, probe, runV, queueV, outV, rateLimitUntil, cancelV, now, cur,
                    call, attempt, wakeAt, ret, reqCount, extCalls, answered,
                    gateOk, gateEntry, connV >>

\* the caller is back from _extend_shared_retry_gate
ExtendReturn(w) ==
    /\ pc[w] = "returned"
    /\ pc' = [pc EXCEPT ![w] = "idle"]
    /\ UNCHANGED << cfgV, probe, runV, queueV, outV, gateV, cancelV, now, cur, call,
                    attempt, pend, wakeAt, ret, reqCount, extCalls, answered,
                    gateOk, gateEntry, connV >>

\* the monotonic clock moves on while the callers run
ClockStep ==
    /\ now < StartClockMs + MaxClockSteps * GateSliceMs
    /\ now' = now + GateSliceMs
    /\ UNCHANGED << cfgV, probe, runV, queueV, outV, gateV, cancelV, pc, cur, call,
                    attempt, pend, wakeAt, ret, reqCount, extCalls, answered,
                    gateOk, gateEntry, connV >>

InitExtend ==
    /\ rateLimitUntil \in {0, StartClockMs + 2 * GateSliceMs}
    /\ InitRun
    /\ concurrency = MaxConcurrency
    /\ retries = 0
    /\ disabledTasks = 1..MaxRawTasks
    /\ backend = {}
    /\ setup = "ok"
    /\ naming_rule = "{index:03d}_{base}"
    /\ bases = DefaultBases
    /\ answers = NoAnswers
    /\ api_root = HttpUrl
    /\ probe = NoProbe
    /\ taskKinds = {}
    /\ jitterSigns = {0}

NextExtend ==
    \/ ClockStep
    \/ \E w \in Workers :
          \/ ExtendCall(w)
          \/ ExtendGate(w)
          \/ ExtendReturn(w)

SpecExtend == InitExtend /\ [][NextExtend]_vars

(***************************************************************************)
(* _compute_retry_delay_ms applied on its own to a range of arguments.     *)
(***************************************************************************)
DelayChoices == {0, 50, 100, 1500, 60000, 200000}
StatusChoices == {None, 200, 400, 408, 425, 429, 500, 503}
RetryAfterChoices == {None, 0, 3000, 7000, 120000, 500000}

\* a run that only applies functions: no tasks, no backend
InitIdle ==
    /\ rateLimitUntil = 0
    /\ InitRun
    /\ concurrency = 1
    /\ retries = 0
    /\ disabledTasks = 1..MaxRawTasks
    /\ backend = {}
    /\ taskKinds = {}
    /\ jitterSigns = {-1, 0, 1}
    /\ setup = "ok"
    /\ naming_rule = "{index:03d}_{base}"
    /\ bases = DefaultBases
    /\ answers = NoAnswers
    /\ api_root = HttpUrl

InitDelay ==
    /\ InitIdle
    /\ \E a \in 0..MaxAttempt, d \in DelayChoices, st \in StatusChoices,
          ra \in RetryAfterChoices, k \in jitterSigns :
          probe = [fn |-> "_compute_retry_delay_ms", attempt |-> a,
                   retry_delay_ms |-> d, status |-> st, retry_after_ms |-> ra,
                   sign |-> k, out |-> None]

\* _compute_retry_delay_ms returns
ComputeDelay ==
    /\ probe.fn = "_compute_retry_delay_ms"
    /\ probe.out = None
    /\ probe' = [probe EXCEPT !.out =
                    ComputeRetryDelayMs(probe.attempt, probe.retry_delay_ms,
                        probe.status, probe.retry_after_ms,
                        probe.sign * JitterSpan(probe.attempt, probe.retry_delay_ms))]
    /\ UNCHANGED << cfgV, runV, queueV, outV, gateV, cancelV, now, pc, cur, call,
                    attempt, pend, wakeAt, ret, reqCount, extCalls, answered,
                    gateOk, gateEntry, connV >>

SpecDelay == InitDelay /\ [][ComputeDelay]_vars

\* C11: for every attempt index, base delay, status and Retry-After value,
\* _compute_retry_delay_ms returns a value in [100, 120000] ms, at least 5000
\* when status is 429 and at least 1200 when status is 408, 425 or 503.
C11_DelayInRange ==
    (probe.fn = "_compute_retry_delay_ms" /\ probe.out # None) =>
        /\ 100 <= probe.out
        /\ probe.out <= 120000
        /\ probe.status = 429 => probe.out >= 5000
        /\ probe.status \in {408, 425, 503} => probe.out >= 1200

\* base delay 0 with the lowest jitter and status 429: the floor decides
C11_Witness ==
    /\ probe.fn = "_compute_retry_delay_ms"
    /\ probe.retry_delay_ms = 0
    /\ probe.attempt = 0
    /\ probe.sign = -1
    /\ probe.status = 429
    /\ probe.retry_after_ms = None
    /\ probe.out = 5000

(***************************************************************************)
(* Output naming: _render_output_stem applied to the tasks of one run.     *)
(* Text is a sequence of characters; "xml" stands for those three letters. *)
(***************************************************************************)
\* two tasks of one run, index 1 and 2, same format, any base names
InitNaming ==
    /\ InitIdle
    /\ \E rule \in NamingRules, b1, b2 \in BaseNames :
          probe = [fn |-> "_render_output_stem", naming_rule |-> rule,
                   base |-> << b1, b2 >>, stem |-> << << >>, << >> >>]

\* _process_task computes the output path of task i
RenderStem(i) ==
    /\ probe.fn = "_render_output_stem"
    /\ probe.stem[i] = << >>
    /\ probe' = [probe EXCEPT !.stem[i] =
                    RenderOutputStem(probe.naming_rule, i, probe.base[i])]
    /\ UNCHANGED << cfgV, runV, queueV, outV, gateV, cancelV, now, pc, cur, call,
                    attempt, pend, wakeAt, ret, reqCount, extCalls, answered,
                    gateOk, gateEntry, connV >>

NextNaming == \E i \in {1, 2} : RenderStem(i)

SpecNaming == InitNaming /\ [][NextNaming]_vars

\* C18: two distinct tasks of one run are written to distinct output paths,
\* for the default naming rule {index:03d}_{base} and for any valid template.
C18_OutputPathsDistinct ==
    (/\ probe.fn = "_render_output_stem"
     /\ probe.stem[1] # << >>
     /\ probe.stem[2] # << >>)
        => probe.stem[1] # probe.stem[2]

(***************************************************************************)
(* schedule_start: the shared pacing clock, called by any worker at any    *)
(* time; schedule_lock makes the read and the update one step.             *)
(***************************************************************************)
ThrottleChoices == {0, 120, 1000, 2500}

NextScheduleTimeFromNow(t, next_schedule_time, throttle_ms) == t + throttle_ms

\* next_schedule_time = max(now, next_schedule_time) + throttle_sec
NextScheduleTime(t, next_schedule_time, throttle_ms) ==
    Max(t, next_schedule_time) + throttle_ms

\* wait = max(0.0, next_schedule_time - now)
ScheduleWait(t, next_schedule_time) == Max(0, next_schedule_time - t)

\* next_schedule_time = time.monotonic() when the run starts
InitPace ==
    /\ InitIdle
    /\ \E throttle_ms \in ThrottleChoices :
          probe = [fn |-> "schedule_start", throttle_ms |-> throttle_ms,
                   next_schedule_time |-> StartClockMs,
                   grants |-> << >>, waits |-> << >>]

\* a worker calls schedule_start; its task starts at now + wait
ScheduleStart ==
    /\ probe.fn = "schedule_start"
    /\ Len(probe.grants) < MaxGrants
    /\ IF probe.throttle_ms <= 0
       THEN probe' = [probe EXCEPT !.grants = Append(@, now),
                                   !.waits = Append(@, 0)]
       ELSE LET wait == ScheduleWait(now, probe.next_schedule_time) IN
            probe' = [probe EXCEPT
                         !.next_schedule_time =
                             NextScheduleTime(now, @, probe.throttle_ms),
                         !.grants = Append(@, now + wait),
                         !.waits = Append(@, wait)]
    /\ UNCHANGED << cfgV, runV, queueV, outV, gateV, cancelV, now, pc, cur, call,
                    attempt, pend, wakeAt, ret, reqCount, extCalls, answered,
                    gateOk, gateEntry, connV >>

\* the monotonic clock moves on between the calls
PaceClockStep ==
    /\ probe.fn = "schedule_start"
    /\ ClockStep

NextPace == ScheduleStart \/ PaceClockStep

SpecPace == InitPace /\ [][NextPace]_vars

\* C19: with throttle_ms = T > 0 the start times granted to any two tasks
\* differ by at least T, the pacing clock never decreases and advances by at
\* least T on every call; with T = 0 no task start is delayed.
C19_StartsSpacedByThrottle ==
    /\ [](probe.fn = "schedule_start" =>
            /\ \A i, j \in 1..Len(probe.grants) :
                  i < j => probe.grants[j] - probe.grants[i] >= probe.throttle_ms
            /\ probe.throttle_ms = 0 =>
                  \A i \in 1..Len(probe.waits) : probe.waits[i] = 0)
    /\ [][probe.next_schedule_time' >= probe.next_schedule_time]_vars
    /\ [][Len(probe.grants') > Len(probe.grants) =>
             probe.next_schedule_time'
                 >= probe.next_schedule_time + probe.throttle_ms]_vars

\* with T = 2500 a call made 1000 ms after the first one was made to wait
\* 1500 ms, and the third start was granted exactly T after the second
C19_Witness ==
    /\ probe.fn = "schedule_start"
    /\ probe.throttle_ms = 2500
    /\ Len(probe.grants) = 3
    /\ probe.waits[1] = 0
    /\ probe.waits[2] = 1500
    /\ probe.grants[3] - probe.grants[2] = 2500

(***************************************************************************)
(* _sanitize_windows_filename applied to one name: every short text, and   *)
(* long texts around the length cap.                                       *)
(***************************************************************************)
MaxRawLen == 3
LongNameLen == 200
SanitizeChars == {"a", "c", "C", "O", "N", ".", " ", "\t", "U+3000", "/", "\\"}
TailChars == {"a", ".", " "}

Fill(n) == [i \in 1..n |-> "a"]

ShortNames == UNION {[1..k -> SanitizeChars] : k \in 0..MaxRawLen}
\* a run of letters up to the cap or just below it, then a short tail
LongNames ==
    {Fill(n) \o t : n \in (NAME_MAX_LEN - MaxRawLen)..NAME_MAX_LEN,
                    t \in UNION {[1..k -> TailChars] : k \in 0..MaxRawLen}}
        \cup {Fill(LongNameLen)}

InitSanitize ==
    /\ InitIdle
    /\ \E raw \in ShortNames \cup LongNames :
          probe = [fn |-> "_sanitize_windows_filename", raw_name |-> raw,
                   done |-> FALSE, out |-> << >>]

Sanitize ==
    /\ probe.fn = "_sanitize_windows_filename"
    /\ ~probe.done
    /\ probe' = [probe EXCEPT !.done = TRUE,
                              !.out = SanitizeWindowsFilename(probe.raw_name)]
    /\ UNCHANGED << cfgV, runV, queueV, outV, gateV, cancelV, now, pc, cur, call,
                    attempt, pend, wakeAt, ret, reqCount, extCalls, answered,
                    gateOk, gateEntry, connV >>

SpecSanitize == InitSanitize /\ [][Sanitize]_vars

Sanitized == probe.fn = "_sanitize_windows_filename" /\ probe.done

\* the same letter, in either case
SameLetter(a, b) ==
    a = b \/ \E k \in 1..Len(Lowers) : {a, b} = {Lowers[k], Uppers[k]}

\* the name spells a reserved device name, whatever the case of its letters
IsReservedAnyCase(name) ==
    \E r \in ReservedNames :
        Len(r) = Len(name) /\ \A i \in 1..Len(r) : SameLetter(name[i], r[i])

\* C24: whatever the input, the sanitized stem is non-empty, has at most 120
\* characters, holds no control character, no path separator and none of
\* < > : " / \ | ? *, and is not a reserved device name in any letter case;
\* CON becomes _CON, a name of 200 letters is cut to 120, a blank name
\* becomes the fallback name; so the output file, named by the stem and the
\* extension, is a direct child of the output directory.
C24_StemIsFilesystemSafe ==
    Sanitized =>
        /\ probe.out # << >>
        /\ Len(probe.out) <= 120
        /\ \A i \in 1..Len(probe.out) :
              probe.out[i] \notin {"\t", "/", "\\", "<", ">", ":", "\"", "|", "?", "*"}
        /\ ~IsReservedAnyCase(probe.out)
        /\ (probe.raw_name = << "C", "O", "N" >> => probe.out = << "_", "C", "O", "N" >>)
        /\ (probe.raw_name = Fill(200) => probe.out = Fill(120))
        /\ ((\A i \in 1..Len(probe.raw_name) :
                 probe.raw_name[i] \in {" ", "\t", "U+3000"})
               => probe.out = << "d", "a", "n", "m", "u" >>)
        /\ PathParts(probe.out \o << ".", "xml" >>) = << probe.out \o << ".", "xml" >> >>

\* a reserved name spelled in mixed case
C24_Witness ==
    /\ Sanitized
    /\ probe.raw_name = << "c", "O", "N" >>
    /\ probe.out = << "_", "c", "O", "N" >>

\* C25: whatever the input, also one longer than 120 characters, the
\* sanitized stem does not end with a dot or a space.
C25_StemEndsWithNoDotOrSpace ==
    Sanitized => probe.out[Len(probe.out)] \notin {".", " "}

\* C38: the sanitizer is idempotent: sanitizing a sanitized name gives the
\* same name again.
C38_SanitizeIsIdempotent ==
    Sanitized => SanitizeWindowsFilename(probe.out) = probe.out

(***************************************************************************)
(* Properties of the worker pool, checked under Spec.                      *)
(***************************************************************************)
ItemIndices == {report.items[i].index : i \in 1..Len(report.items)}

RunEndedUncancelled == main = "done" /\ reportWritten /\ ~cancelled

\* C1: when run_download ends without cancellation, success + failed equals
\* the number of enabled tasks, report.items holds exactly one item per
\* enabled task, and the items are in strictly increasing order of index.
C1_FinalReportComplete ==
    RunEndedUncancelled =>
        /\ ~report.cancelled
        /\ report.success + report.failed = Len(tasks)
        /\ Len(report.items) = Len(tasks)
        /\ ItemIndices = {tasks[k] : k \in 1..Len(tasks)}
        /\ \A i, j \in 1..Len(report.items) :
              i < j => report.items[i].index < report.items[j].index

\* two workers shared two tasks, one succeeded and one failed, the run ended
C1_Witness ==
    /\ RunEndedUncancelled
    /\ concurrency = 2
    /\ Len(tasks) = 2
    /\ report.success = 1
    /\ report.failed = 1

\* C2: next_task is atomic: the tasks handed out are the queue's tasks in
\* queue order, none of them twice, the cursor counts them and never passes
\* the number of tasks, and no two workers hold the same task.
C2_NoTaskHandedTwice ==
    /\ next_pointer <= Len(tasks)
    /\ Len(handed) = next_pointer
    /\ \A i \in 1..Len(handed) : handed[i] = i
    /\ \A v, w \in Active :
          (v # w /\ cur[v] # NoTask /\ cur[w] # NoTask)
              => cur[v].index # cur[w].index

\* both workers hold a task at once and the queue is drained
C2_Witness ==
    /\ concurrency = 2
    /\ cur[1] # NoTask
    /\ cur[2] # NoTask
    /\ next_pointer = Len(tasks)

\* C3: a task's failure (HTTP error, network error, input error, lookup
\* without a match) is recorded as a failed item with an error message and
\* stops neither its worker nor the pool: a worker leaves its loop only on
\* cancellation or a drained queue, and an uncancelled run ends with an item
\* for every task.
C3_FailureIsolated ==
    /\ \A i \in 1..Len(report.items) :
          report.items[i].status = "failed" => report.items[i].error # ""
    /\ report.failed =
          Cardinality({i \in 1..Len(report.items) :
                          report.items[i].status = "failed"})
    /\ \A w \in Active :
          pc[w] = "exit" => (cancelled \/ next_pointer >= Len(tasks))
    /\ RunEndedUncancelled =>
          \A k \in 1..Len(tasks) : tasks[k] \in ItemIndices

\* a single worker recorded a failure and then completed the next task
C3_Witness ==
    /\ concurrency = 1
    /\ ~cancelled
    /\ Len(report.items) = 2
    /\ report.items[1].status = "failed"
    /\ report.items[1].index = 1
    /\ report.items[2].status = "success"

\* C13: if the cancellation flag is set, and stays set, when fewer than all
\* tasks have started, then no worker starts a task once the flag is set,
\* the final report has cancelled = true, and success + failed < total.
C13_CancelStopsNewTasks ==
    /\ [][cancelled => Started' = Started]_vars
    /\ []((main = "done" /\ reportWritten
              /\ cancelStarted # None /\ cancelStarted < Len(tasks))
            => (/\ report.cancelled
                /\ report.success + report.failed = cancelStarted
                /\ report.success + report.failed < Len(tasks)))

\* two workers, two tasks: the flag was set when one task had started; the
\* run ended with that task's item only
C13_Witness ==
    /\ main = "done"
    /\ reportWritten
    /\ concurrency = 2
    /\ Len(tasks) = 2
    /\ cancelStarted = 1
    /\ report.cancelled
    /\ Len(report.items) = 1

\* C14: the cancellation flag is checked before each HTTP request: a worker
\* that begins an attempt with the flag set issues no request, unless it is
\* the first attempt of the task's first call, which run_task's own check
\* precedes (no retry of the current call, no fetch after a lookup).
C14_NoRequestOnceCancelled ==
    [][\A w \in Workers :
          (cancelled /\ pc[w] = "gate" /\ pc'[w] = "send")
              => (attempt[w] = 0 /\ call[w] = FirstCall(cur[w].mode))]_vars

\* every scheduled task has a success item
AllSucceeded ==
    /\ Len(report.items) = Len(tasks)
    /\ \A i \in 1..Len(report.items) : report.items[i].status = "success"

\* C15 as stated: run_download returns 130 iff the run is cancelled,
\* otherwise 2 iff a task failed, otherwise 0; 0 only when every scheduled
\* task succeeded and the run was not cancelled; 130 only when the flag was
\* set while some task had not started yet.
C15_ExitCodeByCancellation ==
    main = "done" =>
        /\ exitCode = 130 <=> cancelled
        /\ ~cancelled => (exitCode = 2 <=> report.failed > 0)
        /\ ~cancelled => exitCode \in {0, 2}
        /\ exitCode = 0 => (AllSucceeded /\ ~cancelled)
        /\ exitCode = 130 => (cancelStarted # None /\ cancelStarted < Len(tasks))

\* C15 amended: a run with scheduled tasks returns 130 iff is_cancelled() is
\* true when read after the workers have joined, also when every task had
\* already run; otherwise 2 iff a task failed, otherwise 0, and then every
\* scheduled task succeeded.  A run without scheduled tasks returns 0
\* whatever the flag.
C15_ExitCodeByReport ==
    main = "done" =>
        IF tasks = << >>
        THEN exitCode = 0
        ELSE /\ report.cancelled <=> cancelled
             /\ exitCode = 130 <=> report.cancelled
             /\ ~report.cancelled => (exitCode = 2 <=> report.failed > 0)
             /\ ~report.cancelled => exitCode \in {0, 2}
             /\ exitCode = 0 => AllSucceeded

\* the flag was set after both tasks had run, one of them failed: 130
C15_Witness ==
    /\ main = "done"
    /\ exitCode = 130
    /\ Len(tasks) = 2
    /\ cancelStarted = 2
    /\ report.failed = 1
    /\ report.success = 1

\* C16: a task with an invalid description (no mode field, or an unsupported
\* format value) fails only that task, as a failed item, and the other
\* tasks are still scheduled; only a setup failure (the output directory,
\* the backend) ends the run before scheduling.
C16_InvalidTaskFailsAlone ==
    /\ main = "aborted" => setup = "no_output_dir"
    /\ (RunEndedUncancelled /\ setup = "bad_format")
          => \A k \in 1..Len(tasks) : tasks[k] \in ItemIndices

\* C17: every run that gets past setup ends with download-report.json
\* written, after all workers have joined, also when no task is scheduled
\* and also when the run is cancelled.
C17_ReportAlwaysWritten ==
    /\ main = "done" => reportWritten
    /\ reportWritten => \A w \in Active : pc[w] = "exit"

\* C5: no worker issues a request while the clock is earlier than the
\* shared gate deadline, including when another worker extends the gate
\* between this worker's gate check and its request.
C5_NoRequestBeforeDeadline ==
    [][\A w \in Workers :
          (pc[w] = "send" /\ pc'[w] = "await") => now >= rateLimitUntil]_vars

(***************************************************************************)
(* Properties of _request_with_retry, checked under SpecRetry.             *)
(***************************************************************************)
RetryableStatuses == {408, 425, 429} \cup (500..599)

\* the response of an attempt is one the retry policy calls retryable
IsRetryableCondition(resp) ==
    \/ resp.kind = "exc" /\ resp.exc \in {"TimeoutError", "ConnectionResetError"}
    \/ resp.kind = "http" /\ resp.status \in RetryableStatuses
    \/ resp.kind = "http" /\ resp.status < 400
          /\ resp.body \in {"soft429", "soft503", "invalid"}

\* _request_with_retry has ended for worker w (returned or raised)
CallEnded(w) == pc[w] = "returned" /\ call[w] # ""

\* C4: one call of _request_with_retry issues at most retries + 1 requests:
\* exactly retries + 1 when every attempt fails retryably, exactly one when
\* the first attempt succeeds or fails non-retryably; every request follows
\* a gate wait that found the gate open; a final failure is raised as an
\* HttpError or a RuntimeError.
C4_AttemptsBounded ==
    \A w \in Active :
        /\ reqCount[w] <= retries + 1
        /\ pc[w] = "await" => gateOk[w]
        /\ CallEnded(w) =>
              /\ reqCount[w] = attempt[w] + 1
              /\ (ret[w].act = "raise" /\ IsRetryableCondition(ret[w].resp))
                    => reqCount[w] = retries + 1
              /\ (ret[w].act = "return" \/ ~IsRetryableCondition(ret[w].resp))
                    => (attempt[w] = 0 => reqCount[w] = 1)
              /\ ret[w].act \in {"return", "raise"}
              /\ ret[w].act = "raise" => ret[w].exc \in {"HttpError", "RuntimeError"}

\* every one of retries + 1 = 2 attempts failed retryably and the call raised
C4_Witness ==
    \E w \in Active :
        /\ CallEnded(w)
        /\ retries = 1
        /\ ret[w].act = "raise"
        /\ IsRetryableCondition(ret[w].resp)
        /\ reqCount[w] = 2

\* the call gave up with its retries exhausted on a retryable condition
Exhausted(w) ==
    /\ CallEnded(w)
    /\ ret[w].act = "raise"
    /\ attempt[w] >= retries
    /\ IsRetryableCondition(ret[w].resp)

\* HTTP 429 or 503, as a status or as the errorCode of a 200 body
IsRateLimitClass(resp) ==
    /\ resp.kind = "http"
    /\ \/ resp.status \in {429, 503}
       \/ resp.status < 400 /\ resp.body \in {"soft429", "soft503"}

\* C7 as stated: at exhaustion on any retryable condition the gate reaches
\* at least 30000 ms (HTTP class) or 15000 ms (network class) past the
\* final failure.
C7_ExhaustionAlwaysExtends ==
    \A w \in Active :
        Exhausted(w) =>
            rateLimitUntil >= ret[w].at +
                (IF ret[w].resp.kind = "exc" THEN 15000 ELSE 30000)

\* C7 amended: at exhaustion on HTTP 429 or 503 (status or soft body) the
\* gate reaches at least 30000 ms past the final failure, at exhaustion on
\* a retryable network error at least 15000 ms; exhaustion on 408, 425,
\* another 5xx or malformed JSON makes no extension call at the final
\* failure.
C7_RateLimitExhaustionExtends ==
    \A w \in Active :
        Exhausted(w) =>
            /\ IsRateLimitClass(ret[w].resp)
                  => (rateLimitUntil >= ret[w].at + 30000
                        /\ extCalls[w] = attempt[w] + 1)
            /\ ret[w].resp.kind = "exc"
                  => (rateLimitUntil >= ret[w].at + 15000
                        /\ extCalls[w] = attempt[w] + 1)
            /\ (ret[w].resp.kind = "http" /\ ~IsRateLimitClass(ret[w].resp))
                  => extCalls[w] = attempt[w]

\* retries ran out on HTTP 429 after one retry and the gate was extended
C7_Witness ==
    \E w \in Active :
        /\ Exhausted(w)
        /\ attempt[w] = 1
        /\ ret[w].resp.kind = "http"
        /\ ret[w].resp.status = 429
        /\ rateLimitUntil >= ret[w].at + 30000

\* the attempt of worker w is being retried and its response carried a
\* Retry-After header
RetriedWithRetryAfter(w) ==
    /\ pc[w] = "retry_sleep"
    /\ ret[w].act = "retry"
    /\ ret[w].resp.retryAfter # None

\* C12 as stated: when a retried response carries Retry-After r, the wait
\* before the next attempt and the gate extension are at least
\* min(120000, r), whatever retryable status the response has.
C12_RetryAfterAlwaysHonoured ==
    \A w \in Active :
        RetriedWithRetryAfter(w) =>
            LET r == Min(120000, ret[w].resp.retryAfter * 1000) IN
            /\ wakeAt[w] >= ret[w].at + r
            /\ rateLimitUntil >= ret[w].at + r

\* C12 amended: Retry-After is honoured when the retried response is HTTP 429
\* or 503, as a status or as a soft rate-limit body; with any other retryable
\* status the header is not read and the wait is the jittered backoff with
\* the status floor.
C12_RetryAfterHonouredOn429And503 ==
    \A w \in Active :
        RetriedWithRetryAfter(w) =>
            LET r == Min(120000, ret[w].resp.retryAfter * 1000) IN
            IF IsRateLimitClass(ret[w].resp)
            THEN /\ wakeAt[w] >= ret[w].at + r
                 /\ rateLimitUntil >= ret[w].at + r
            ELSE wakeAt[w] <= ret[w].at
                     + Max(1200, (1500 * Pow2(attempt[w]) * 5) \div 4)

\* a 429 with Retry-After is being retried after exactly the header's time
C12_Witness ==
    \E w \in Active :
        /\ RetriedWithRetryAfter(w)
        /\ ret[w].resp.status = 429
        /\ wakeAt[w] = ret[w].at + RetryAfterSeconds * 1000
        /\ rateLimitUntil >= wakeAt[w]

\* worker w is processing a task whose mode needs no lookup
IsDirectMode(w) == cur[w].mode \in {"url", "commentId"}

\* C20: a task in url or commentId mode issues exactly one fetch call and no
\* lookup call: its call is the fetch from the moment the task starts, no
\* lookup is ever begun, and no call follows the one that ended.
C20_DirectModesFetchOnce ==
    /\ [](\A w \in Active :
            (IsDirectMode(w) /\ pc[w] \notin {"run_task", "loop"})
                => call[w] = "fetch")
    /\ [][\A w \in Active :
             IsDirectMode(w) =>
                 /\ call'[w] # "lookup"
                 /\ pc[w] = "returned" => pc'[w] \in {"returned", "loop"}]_vars

\* a commentId task's single fetch call returned on its second request
C20_Witness ==
    \E w \in Active :
        /\ cur[w].mode = "commentId"
        /\ pc[w] = "returned"
        /\ call[w] = "fetch"
        /\ ret[w].act = "return"
        /\ reqCount[w] = 2

\* the call ended on an outcome that is not retryable: a success, an HTTP
\* status outside the retryable set, a transport error that is not
\* retryable, or an input error before any request
IsNonRetryableOutcome(w) ==
    /\ pc[w] = "returned"
    /\ \/ ret[w].act = "return"
       \/ ret[w].act = "raise" /\ call[w] = ""
       \/ ret[w].act = "raise" /\ ret[w].resp.kind = "http"
             /\ ret[w].resp.status >= 400
             /\ ret[w].resp.status \notin RetryableStatuses
       \/ ret[w].act = "raise" /\ ret[w].resp.kind = "exc"
             /\ ret[w].resp.exc \notin {"TimeoutError", "ConnectionResetError"}

\* C8: an outcome that is not retryable never calls the gate extension: the
\* only extension calls of the call are those of its earlier retries, and an
\* input error ends with no request and no extension call.
C8_NonRetryableNeverExtends ==
    \A w \in Active :
        IsNonRetryableOutcome(w) =>
            /\ extCalls[w] = attempt[w]
            /\ pend[w] = NoPend
            /\ call[w] = "" => (reqCount[w] = 0 /\ extCalls[w] = 0)

\* a transport error that is not retryable ended the call at the last attempt
C8_Witness ==
    \E w \in Active :
        /\ IsNonRetryableOutcome(w)
        /\ ret[w].resp.kind = "exc"
        /\ attempt[w] = 1
        /\ extCalls[w] = 1

\* C9: a response with status >= 400 is retried iff the status is 408, 425,
\* 429 or in 500..599 and attempts remain; otherwise it is raised as an
\* HttpError carrying that status, and a status outside the retryable set is
\* raised at once: no sleep, no extension call, after exactly one attempt
\* when it is the first.
C9_RetryIffRetryableStatus ==
    \A w \in Active :
        (ret[w].resp.kind = "http" /\ ret[w].resp.status >= 400) =>
            LET status == ret[w].resp.status IN
            /\ ret[w].act = "retry"
                  <=> (status \in RetryableStatuses /\ attempt[w] < retries)
            /\ ret[w].act # "retry"
                  => /\ ret[w].act = "raise"
                     /\ ret[w].exc = "HttpError"
                     /\ ret[w].status = status
            /\ status \notin RetryableStatuses
                  => /\ pc[w] = "returned"
                     /\ reqCount[w] = attempt[w] + 1
                     /\ extCalls[w] = attempt[w]

\* status 600 was raised after one attempt although a retry was left
C9_Witness ==
    \E w \in Active :
        /\ pc[w] = "returned"
        /\ retries = 1
        /\ attempt[w] = 0
        /\ ret[w].resp.kind = "http"
        /\ ret[w].resp.status = 600
        /\ ret[w].exc = "HttpError"
        /\ reqCount[w] = 1

\* C10: an HTTP 200 response whose JSON body has errorCode 429 or 503 and
\* success other than true is never returned by _request_with_retry and
\* never written to an output file, for lookups and fetches of either format.
C10_SoftRateLimitNeverSuccess ==
    /\ \A w \in Active :
          (pc[w] = "returned" /\ ret[w].act = "return")
              => ret[w].resp.body \notin {"soft429", "soft503"}
    /\ \A f \in files : f.content.of \notin {"soft429", "soft503"}

(***************************************************************************)
(* Properties of the gate under concurrent extension, checked under        *)
(* SpecExtend.                                                             *)
(***************************************************************************)
PendingTargets == {pend[w].target : w \in {v \in Workers : pc[v] = "extend"}}

MaxOf(S) == CHOOSE x \in S : \A y \in S : y <= x

\* C6: the gate deadline never decreases; once the calls in progress have
\* been applied it is the maximum of the initial deadline and every proposed
\* deadline (now + wait_ms at each call); a call with wait_ms <= 0 leaves
\* it unchanged.
C6_GateIsMaxOfProposals ==
    /\ [](MaxOf({rateLimitUntil} \cup (PendingTargets \ {None})) = proposedMax)
    /\ [][rateLimitUntil' >= rateLimitUntil]_vars
    /\ [][\A w \in Workers :
             (pc[w] = "extend" /\ pc'[w] = "returned" /\ pend[w].wait_ms <= 0)
                 => rateLimitUntil' = rateLimitUntil]_vars

\* the gate was extended past its initial deadline; one caller is about to
\* apply an earlier deadline than the one in force while the other is in a
\* call with wait_ms <= 0
C6_Witness ==
    \E v, w \in Workers :
        /\ v # w
        /\ pc[v] = "extend"
        /\ pend[v].target # None
        /\ pend[v].target < rateLimitUntil
        /\ pc[w] = "extend"
        /\ pend[w].wait_ms <= 0
        /\ extCalls[w] >= 1
        /\ rateLimitUntil = StartClockMs + Floor429Ms


(***************************************************************************)
(* Properties of the progress lines, checked under Spec.                   *)
(***************************************************************************)
\* how many lines of the given text were emitted, whatever their number
LineCount(text) ==
    LET lines == {l \in BagToSet(emitted) : l[1] = text}
        RECURSIVE Sum(_)
        Sum(S) == IF S = {} THEN 0
                  ELSE LET l == CHOOSE x \in S : TRUE
                       IN  CopiesIn(l, emitted) + Sum(S \ {l})
    IN  Sum(lines)

\* how many lines of the given text and number were emitted
Lines(text, n) == CopiesIn(<< text, n >>, emitted)

\* C26: of a run of n tasks the sink gets one "Total tasks: n" line, before
\* any Start line; a task that starts gets one Start line, and after it one
\* line that is either OK or FAILED; the OK and FAILED lines never number more
\* than n, and when the run has ended they number success + failed.
C26_ProgressLines ==
    /\ LineCount("Total tasks: ") <= 1
    /\ LineCount("Start... ") > 0 =>
          (LineCount("Total tasks: ") = 1 /\ Lines("Total tasks: ", Len(tasks)) = 1)
    /\ main \in {"running", "joined"} => Lines("Total tasks: ", Len(tasks)) = 1
    /\ \A i \in 1..MaxRawTasks :
          /\ Lines("Start... ", i) <= 1
          /\ Lines("OK -> ", i) + Lines("FAILED -> ", i) <= Lines("Start... ", i)
          /\ (\E k \in 1..Len(report.items) : report.items[k].index = i)
                => Lines("OK -> ", i) + Lines("FAILED -> ", i) = 1
    /\ \A w \in Workers :
          pc[w] \in {"gate", "gate_sleep", "send", "await", "extend", "retry_sleep",
                     "returned"}
             => /\ Lines("Start... ", cur[w].index) = 1
                /\ Lines("OK -> ", cur[w].index) + Lines("FAILED -> ", cur[w].index) = 0
    /\ LineCount("OK -> ") + LineCount("FAILED -> ") <= Len(tasks)
    /\ main = "done" =>
          /\ LineCount("OK -> ") + LineCount("FAILED -> ")
                = report.success + report.failed
          /\ LineCount("OK -> ") + LineCount("FAILED -> ") = LineCount("Start... ")

\* a run of two tasks has ended, one task succeeded and one failed
C26_Witness ==
    /\ main = "done"
    /\ Lines("Total tasks: ", 2) = 1
    /\ LineCount("Start... ") = 2
    /\ LineCount("OK -> ") = 1
    /\ LineCount("FAILED -> ") = 1

(***************************************************************************)
(* Disabled tasks, checked under Spec.                                     *)
(***************************************************************************)
\* the raw positions (1-based, as task["index"]) that are not disabled
EnabledIndices == (1..MaxRawTasks) \ disabledTasks

\* C29: a disabled task is dropped before scheduling: no worker ever claims
\* or starts it, no request is sent for it, it has no report item and is not
\* counted in the total; the tasks that remain keep the index of their
\* position in the raw list.
C29_DisabledTasksDropped ==
    /\ \A w \in Workers : cur[w] # NoTask => cur[w].index \in EnabledIndices
    /\ \A w \in Workers : reqCount[w] > 0 => cur[w].index \in EnabledIndices
    /\ \A k \in 1..Len(report.items) : report.items[k].index \in EnabledIndices
    /\ \A i \in disabledTasks :
          Lines("Start... ", i) + Lines("OK -> ", i) + Lines("FAILED -> ", i) = 0
    /\ main \in {"running", "joined", "done"} =>
          /\ Len(tasks) = Cardinality(EnabledIndices)
          /\ {tasks[k] : k \in 1..Len(tasks)} = EnabledIndices
          /\ \A k \in 1..(Len(tasks) - 1) : tasks[k] < tasks[k + 1]
          /\ tasks # << >> => Lines("Total tasks: ", Cardinality(EnabledIndices)) = 1
          /\ Len(handed) <= Cardinality(EnabledIndices)

\* the first raw task is disabled; the second ran, as task 2
C29_Witness ==
    /\ disabledTasks = {1}
    /\ main = "done"
    /\ Len(report.items) = 1
    /\ report.items[1].index = 2
    /\ Lines("Total tasks: ", 1) = 1

(***************************************************************************)
(* A fetch that is retried and then answered 200, checked under SpecRetry. *)
(***************************************************************************)
\* worker w's fetch got retryable statuses on all attempts but the last, which
\* was answered 200, and that answer has been handled
RetriedThenOk(w) ==
    /\ call[w] = "fetch"
    /\ pc[w] \in {"returned", "extend", "retry_sleep"}
    /\ ret[w].resp.kind = "http"
    /\ ret[w].resp.status = 200
    /\ answered[w] # << >>
    /\ answered[w][Len(answered[w])] = 200
    /\ \A j \in 1..(Len(answered[w]) - 1) : answered[w][j] \in RetryableStatuses

\* the number of retried attempts before the 200
RetriedAttempts(w) == Len(answered[w]) - 1

\* the call takes the 200 body as its result: any text for xml; for json
\* anything but undecodable text and a soft rate-limit object
BodyAccepted(fmt, body) == fmt = "xml" \/ body \notin {"soft429", "soft503", "invalid"}

JsonAnswered(w, body) ==
    /\ pc[w] \in {"returned", "extend", "retry_sleep"}
    /\ call[w] # ""
    /\ ~(call[w] = "fetch" /\ cur[w].fmt = "xml")
    /\ ret[w].resp.kind = "http"
    /\ ret[w].resp.status < 400
    /\ ret[w].resp.body = body

\* the backoff without a status: the retry delay doubled per attempt, give or
\* take a quarter, no rate-limit floor
StatusLessDelays(n) ==
    LET expected == RetryDelayMs * (2 ^ n)
    IN  (expected - expected \div 4)..(expected + expected \div 4)

\* C30: where JSON is expected, a body that is not valid JSON is retried
\* while attempts remain, after a backoff computed without a status by which
\* the gate is extended too; when the last of retries + 1 attempts gets such
\* a body the call raises a RuntimeError and the task fails with "Invalid
\* JSON response"; a blank body is returned at once as an empty object.
C30_MalformedJsonRetried ==
    /\ [](\A w \in Workers : JsonAnswered(w, "invalid") =>
            IF attempt[w] < retries
            THEN /\ ret[w].act = "retry"
                 /\ pc[w] \in {"extend", "retry_sleep"}
                 /\ pc[w] = "extend" =>
                       /\ pend[w].wait_ms \in StatusLessDelays(attempt[w])
                       /\ pend[w].target = ret[w].at + pend[w].wait_ms
                 /\ pc[w] = "retry_sleep" =>
                       /\ extCalls[w] = attempt[w] + 1
                       /\ wakeAt[w] - ret[w].at \in StatusLessDelays(attempt[w])
                       /\ rateLimitUntil >= wakeAt[w]
            ELSE /\ ret[w].act = "raise"
                 /\ ret[w].exc = "RuntimeError"
                 /\ pc[w] = "returned"
                 /\ attempt[w] = retries
                 /\ reqCount[w] = retries + 1
                 /\ extCalls[w] = retries)
    /\ [](\A w \in Workers : JsonAnswered(w, "empty") =>
            /\ ret[w].act = "return"
            /\ pc[w] = "returned"
            /\ reqCount[w] = attempt[w] + 1
            /\ extCalls[w] = attempt[w])
    /\ [][\A w \in Workers :
            /\ (JsonAnswered(w, "invalid") /\ pc[w] = "returned" /\ pc'[w] # pc[w])
                  => report'.items =
                        Append(report.items,
                               FailedItem(cur[w].index, "Invalid JSON response"))
            /\ (JsonAnswered(w, "empty") /\ call[w] = "fetch" /\ pc'[w] # pc[w])
                  => /\ \E f \in files' \ files :
                           f.content = [as |-> "json.dumps", of |-> "{}"]
                     /\ report'.items = Append(report.items, SuccessItem(cur[w].index))
         ]_vars

\* two undecodable bodies in a row with one retry allowed: the call has raised
C30_Witness ==
    /\ JsonAnswered(1, "invalid")
    /\ retries = 1
    /\ answered[1] = << 200, 200 >>
    /\ attempt[1] = 1
    /\ extCalls[1] = 1
    /\ ret[1].act = "raise"

(***************************************************************************)
(* Properties of one task's resolution, checked under SpecRetry.           *)
(***************************************************************************)
\* a lookup of worker w returned data the resolver does not accept
LookupRejected(w) ==
    /\ pc[w] = "returned"
    /\ ret[w].act = "return"
    /\ call[w] = "lookup"
    /\ ~LookupFound(ret[w].resp.body)

\* C21: a fileName or anime task whose lookup returns data that is
\* unsuccessful, unmatched, empty or without an episode identifier fails with
\* the not-found error naming the file or the anime, and issues no fetch; a
\* fetch of such a task only ever follows a lookup that found an identifier.
C21_RejectedLookupIsNotFound ==
    [][\A w \in Workers :
          /\ (LookupRejected(w) /\ pc'[w] # pc[w]) =>
                 /\ call'[w] = ""
                 /\ Len(report'.items) = Len(report.items) + 1
                 /\ report'.items[Len(report'.items)] =
                        FailedItem(cur[w].index, NotFoundText(cur[w].mode))
          /\ (call[w] = "lookup" /\ call'[w] = "fetch") =>
                 /\ ret[w].act = "return"
                 /\ LookupFound(ret[w].resp.body)]_vars


(***************************************************************************)
(* Properties of a task's mode, checked under SpecTask.                    *)
(***************************************************************************)
ModePriority == << "url", "commentId", "fileName", "anime" >>

\* the task sets the field: a non-empty string, or for commentId an integer
\* other than 0
FieldIsSet(task, field) ==
    CASE field = "url" -> task.url # ""
      [] field = "commentId" -> task.commentId # None /\ task.commentId # 0
      [] field = "fileName" -> task.fileName # ""
      [] field = "anime" -> task.anime # ""

\* the input error of a task without a supported field
MissingFieldsItem(index) == FailedItem(index, "Task missing supported fields")

\* C22: the mode of a task is the first field it sets in the order url,
\* commentId, fileName, anime; a task that sets none is failed as an input
\* error: no request is sent for it, nothing is retried, and the gate's
\* deadline is left as it was.
C22_ModeIsFirstSetField ==
    /\ [](\A w \in Workers : cur[w] # NoTask =>
            /\ \A k \in 1..Len(ModePriority) :
                  (/\ FieldIsSet(cur[w].task, ModePriority[k])
                   /\ \A j \in 1..(k - 1) : ~FieldIsSet(cur[w].task, ModePriority[j]))
                      => cur[w].mode = ModePriority[k]
            /\ (\A k \in 1..Len(ModePriority) :
                    ~FieldIsSet(cur[w].task, ModePriority[k]))
                  => /\ cur[w].mode = ""
                     /\ call[w] = ""
                     /\ reqCount[w] = 0
                     /\ extCalls[w] = 0
                     /\ attempt[w] = 0
                     /\ pc[w] \in {"run_task", "returned"})
    /\ [][\A w \in Workers :
            (cur[w] # NoTask /\ cur[w].mode = "" /\ pc[w] = "returned"
                 /\ pc'[w] # pc[w])
               => /\ report'.items = Append(report.items, MissingFieldsItem(cur[w].index))
                  /\ rateLimitUntil' = rateLimitUntil
                  /\ files' = files]_vars

\* the first task set no field and was failed; the second sets commentId,
\* fileName and anime and is fetched by its commentId
C22_Witness ==
    /\ report.items = << MissingFieldsItem(1) >>
    /\ cur[1].index = 2
    /\ cur[1].task = [url |-> "", commentId |-> 7, fileName |-> "f", anime |-> "a"]
    /\ cur[1].mode = "commentId"
    /\ call[1] = "fetch"
    /\ reqCount[1] = 1


\* the naming template names a field _render_output_stem does not provide
BadNamingRule == ~RuleFieldsKnown(naming_rule)

\* C23: under a naming template with an unknown placeholder every task fails
\* at once with "Invalid naming rule field": no request is sent for it, it is
\* not retried, no output file is written, and the failure is its report item.
C23_BadNamingRuleFailsAtOnce ==
    /\ [](BadNamingRule =>
            /\ files = {}
            /\ \A w \in Workers : reqCount[w] = 0 /\ attempt[w] = 0
            /\ \A k \in 1..Len(report.items) :
                  report.items[k].status = "failed")
    /\ [][\A w \in Workers :
            (BadNamingRule /\ cur[w] # NoTask /\ cur[w].mode # ""
                 /\ cur'[w] = NoTask /\ ~IsCancelled(cancelled) /\ pc[w] # "run_task")
               => report'.items =
                     Append(report.items,
                            FailedItem(cur[w].index, "Invalid naming rule field"))]_vars


(***************************************************************************)
(* The outcome of a run whatever its concurrency, checked under SpecEquiv. *)
(***************************************************************************)
\* the status task i gets when its every request is answered by answers[i]
FixedStatus(i) == IF answers[i].status = 200 THEN "success" ELSE "failed"

FixedPath(i) == OutputPath(naming_rule, i, bases[i], "xml")

\* the files a run of one worker leaves: the tasks run in index order, so of
\* the successful tasks of one path the last one's content stays
SequentialFiles ==
    {[path |-> FixedPath(i), content |-> FileContent("text", answers[i].body)] :
        i \in {k \in 1..Len(tasks) :
                  /\ FixedStatus(k) = "success"
                  /\ \A j \in (k + 1)..Len(tasks) :
                        ~(FixedStatus(j) = "success" /\ FixedPath(j) = FixedPath(k))}}

\* C27: before a backend whose response depends only on the request, a run
\* that is not cancelled ends with the same status for each index and the
\* same output files with the same contents, whatever the concurrency: those
\* of the run with one worker.
C27_OutcomeIndependentOfConcurrency ==
    (main = "done" /\ ~report.cancelled) =>
        /\ \A k \in 1..Len(report.items) :
              report.items[k].status = FixedStatus(report.items[k].index)
        /\ files = SequentialFiles

\* the same, for the run of one worker only
C27_SequentialRun ==
    concurrency = 1 => C27_OutcomeIndependentOfConcurrency


(***************************************************************************)
(* Requests to a URL whose scheme the transport does not support, checked   *)
(* under SpecScheme: one worker, two url tasks, a base URL of scheme http    *)
(* or ftp, the ftp one with or without the words "timed out" in its path.    *)
(***************************************************************************)
SchemeBackend == {HttpResp(200, "dict_ok", None), HttpResp(503, "empty", None)}

InitScheme ==
    /\ rateLimitUntil = 0
    /\ InitRun
    /\ concurrency = 1
    /\ retries \in 0..MaxRetries
    /\ disabledTasks = 3..MaxRawTasks
    /\ backend = SchemeBackend
    /\ setup = "ok"
    /\ naming_rule = "{index:03d}_{base}"
    /\ bases = DefaultBases
    /\ answers = NoAnswers
    /\ api_root \in {HttpUrl, FtpUrl, FtpHintedUrl}
    /\ probe = NoProbe
    /\ taskKinds = {<< TaskOf("url"), "xml" >>}
    /\ jitterSigns = {0}

SpecScheme == InitScheme /\ [][Next]_vars

\* C31: a request whose URL scheme is not http or https fails on its first
\* attempt with a runtime error: nothing is sent, the attempt is not
\* repeated, no backoff sleep is taken and the gate deadline stays as it was.
C31_UnsupportedSchemeFailsAtOnce ==
    ~RequestUrlValid(api_root) =>
        /\ rateLimitUntil = 0
        /\ \A w \in Workers :
              /\ reqCount[w] = 0
              /\ attempt[w] = 0
              /\ extCalls[w] = 0
              /\ pc[w] \notin {"extend", "retry_sleep", "gate_sleep"}
              /\ pc[w] = "returned" =>
                    ret[w].act = "raise" /\ ret[w].exc = "RuntimeError"

(***************************************************************************)
(* Classification of transport failures, checked under SpecChain: one       *)
(* worker and two url tasks whose every request ends with any of the        *)
(* exceptions of the model, or is answered.                                 *)
(***************************************************************************)
TransportErrors ==
    ExcNames \ {"Invalid request URL", "Invalid request URL: timed out"}

InitChain ==
    /\ rateLimitUntil = 0
    /\ InitRun
    /\ concurrency = 1
    /\ retries \in 0..MaxRetries
    /\ disabledTasks = 3..MaxRawTasks
    /\ backend = {ExcResp(x) : x \in TransportErrors}
                    \cup {HttpResp(200, "dict_ok", None)}
    /\ setup = "ok"
    /\ naming_rule = "{index:03d}_{base}"
    /\ bases = DefaultBases
    /\ answers = NoAnswers
    /\ api_root = HttpUrl
    /\ probe = NoProbe
    /\ taskKinds = {<< TaskOf("url"), "xml" >>}
    /\ jitterSigns = {0}

SpecChain == InitChain /\ [][Next]_vars

\* the exceptions an exception refers to: the reason of a URLError, its
\* __cause__ and its __context__
Referred(x) ==
    {y \in ExcNames :
        \/ y = Exceptions[x].cause
        \/ y = Exceptions[x].context
        \/ Exceptions[x].type = "URLError" /\ y = Exceptions[x].reason}

\* the chain of an exception: what is reached from it, transitively
RECURSIVE ChainClosure(_)
ChainClosure(S) ==
    LET T == S \cup UNION {Referred(x) : x \in S}
    IN  IF T = S THEN S ELSE ChainClosure(T)

\* one exception is of a retryable type, or an OSError with a listed errno or
\* winerror, or its message contains a listed hint
IsRetryableKind(x) ==
    LET item == Exceptions[x] IN
    \/ item.type \in {"TimeoutError", "ConnectionResetError",
                      "ConnectionAbortedError", "ConnectionRefusedError",
                      "BrokenPipeError", "HTTPException"}
    \/ /\ item.type \in OSErrorTypes
       /\ \/ item.errno \in {54, 60, 104, 110, 111, 113}
          \/ item.winerror \in {10053, 10054, 10060, 10061}
    \/ item.hinted

ChainIsRetryable(x) == \E y \in ChainClosure({x}) : IsRetryableKind(y)

\* C35: a transport failure is treated as retryable iff some exception of its
\* chain (reason, __cause__, __context__, transitively) is of a retryable
\* kind; the walk yields each exception of the chain exactly once, cyclic
\* chains included; a failure that is not retryable is raised at once, so
\* after exactly one attempt when it is the first.
C35_RetryableIffChainMatches ==
    \A w \in Workers :
       (pc[w] \in {"extend", "returned"} /\ ret[w].resp.kind = "exc") =>
          LET exc == ret[w].resp.exc
              chain == IterExceptionChain(exc)
          IN  /\ {chain[i] : i \in DOMAIN chain} = ChainClosure({exc})
              /\ \A i, j \in DOMAIN chain : chain[i] = chain[j] => i = j
              /\ IF ChainIsRetryable(exc)
                 THEN IF attempt[w] < retries
                      THEN ret[w].act = "retry"
                      ELSE /\ ret[w].act = "raise"
                           /\ extCalls[w] + (IF pc[w] = "extend" THEN 1 ELSE 0)
                                 = attempt[w] + 1
                 ELSE /\ ret[w].act = "raise"
                      /\ pc[w] = "returned"
                      /\ reqCount[w] = attempt[w] + 1
                      /\ extCalls[w] = attempt[w]

\* a failure whose chain is cyclic and holds an OSError with errno 104 two
\* links away is retried; one whose cyclic chain holds nothing retryable was
\* raised after one attempt
C35_Witness ==
    \E w \in Workers :
       /\ pc[w] = "returned"
       /\ ret[w].resp.kind = "exc"
       /\ ret[w].resp.exc = "cycle A"
       /\ ret[w].act = "raise"
       /\ reqCount[w] = 1
       /\ retries = 1
       /\ Len(IterExceptionChain("cycle C")) = 3
       /\ IsRetryableNetworkError("cycle C")

(***************************************************************************)
(* Termination, checked under SpecLive: the pool with one or two workers,   *)
(* up to two url tasks, a backend that answers or is busy, and a            *)
(* scheduler that lets every thread that can take a step take one: the      *)
(* main thread, each worker, the clock.  A request that was sent is         *)
(* answered or raises (a step of its worker).  Cancellation may come at     *)
(* any time or never.                                                       *)
(***************************************************************************)
LiveBackend == {HttpResp(200, "dict_ok", None), HttpResp(503, "empty", None)}

InitLive ==
    /\ rateLimitUntil = 0
    /\ InitRun
    /\ concurrency \in 1..MaxConcurrency
    /\ retries \in 0..MaxRetries
    /\ disabledTasks \in SUBSET (1..MaxRawTasks)
    /\ backend = LiveBackend
    /\ setup = "ok"
    /\ naming_rule = "{index:03d}_{base}"
    /\ bases = DefaultBases
    /\ answers = NoAnswers
    /\ api_root = HttpUrl
    /\ probe = NoProbe
    /\ taskKinds = {<< TaskOf("url"), "xml" >>}
    /\ jitterSigns = {0}

\* the steps of run_download's own thread and of worker w, those of CallDone
\* apart
MainStep == Setup \/ Join \/ Finalize
WorkerStep(w) ==
    \/ WorkerLoop(w) \/ NextTask(w) \/ RunTask(w) \/ GateCheck(w) \/ GateWake(w)
    \/ SendRequest(w) \/ Receive(w) \/ ExtendGate(w) \/ RetryWake(w)

\* CallDone(w) can take a step: the guards of its three cases
CallDoneEnabled(w) ==
    /\ pc[w] = "returned"
    /\ \/ ret[w].act = "raise"
       \/ ret[w].act = "return" /\ call[w] \in {"lookup", "fetch"}

\* weak fairness of every thread; that of CallDone(w) is written out by the
\* definition of WF, with its enabling condition given as a state predicate
Fairness ==
    /\ WF_vars(MainStep)
    /\ WF_vars(Tick)
    /\ \A w \in Workers :
          /\ WF_vars(WorkerStep(w))
          /\ ([]<>(~CallDoneEnabled(w)) \/ []<><<CallDone(w)>>_vars)

SpecLive == InitLive /\ [][Next]_vars /\ Fairness

C33_BackoffPausesLaterAttempts ==
    /\ [][rateLimitUntil' >= rateLimitUntil]_vars
    /\ [][\A w \in Workers :
            (pc[w] = "extend" /\ pc'[w] # "extend" /\ pend[w].target # None)
                => rateLimitUntil' >= pend[w].target]_vars
    /\ [][\A w \in Workers :
            reqCount'[w] > reqCount[w] => now >= gateEntry[w]]_vars

\* a worker on the first attempt of the first task it took entered the gate
\* wait under a deadline another worker's failure had set, and is through the
\* gate, about to send, with the clock at or past that deadline
C33_Witness ==
    \E w \in Workers :
       /\ pc[w] = "send"
       /\ attempt[w] = 0
       /\ extCalls[w] = 0
       /\ report.items = << >>
       /\ gateEntry[w] > StartClockMs
       /\ now >= gateEntry[w]
       /\ \E v \in Workers \ {w} : pc[v] = "retry_sleep"

(***************************************************************************)
(* _derive_base_name applied on its own, checked under SpecBase: every      *)
(* combination of set and unset task fields, every mode, and resolved       *)
(* titles present or not.  A text is "" when it is empty or absent; a base  *)
(* name is the sequence of its pieces.                                      *)
(***************************************************************************)
BaseTasks ==
    [name : {"", "n"}, url : {"", "u"}, commentId : {None, 0, 7},
     fileName : {"", "f"}, anime : {"", "a"}, episode : {"", "e"},
     index : 1..MaxRawTasks]
Resolved == [animeTitle : {"", "A"}, episodeTitle : {"", "E"}]

\* x or y, of texts
Or(x, y) == IF x # "" THEN x ELSE y

DeriveBaseNameTitlesFirst(task, mode, resolved) ==
    IF resolved.animeTitle # "" \/ resolved.episodeTitle # ""
    THEN << Or(resolved.animeTitle, "unknown"), "-",
            Or(resolved.episodeTitle, "episode") >>
    ELSE IF task.name # "" THEN << task.name >>
    ELSE << "task-", ToString(task.index) >>

\* _derive_base_name
DeriveBaseName(task, mode, resolved) ==
    IF task.name # "" THEN << task.name >>
    ELSE IF resolved.animeTitle # "" \/ resolved.episodeTitle # ""
    THEN << Or(resolved.animeTitle, "unknown"), "-",
            Or(resolved.episodeTitle, "episode") >>
    ELSE IF mode = "url" /\ task.url # "" THEN << task.url >>
    ELSE IF mode = "commentId" /\ task.commentId \notin {None, 0}
    THEN << "comment-", ToString(task.commentId) >>
    ELSE IF mode = "fileName" /\ task.fileName # "" THEN << task.fileName >>
    ELSE IF mode = "anime" /\ task.anime # ""
    THEN << task.anime, "-", Or(task.episode, "all") >>
    ELSE << "task-", ToString(task.index) >>

InitBase ==
    /\ InitIdle
    /\ \E task \in BaseTasks, mode \in Modes, resolved \in Resolved :
          probe = [fn |-> "_derive_base_name", task |-> task, mode |-> mode,
                   resolved |-> resolved, done |-> FALSE, out |-> << >>]

DeriveBase ==
    /\ probe.fn = "_derive_base_name"
    /\ ~probe.done
    /\ probe' = [probe EXCEPT !.done = TRUE,
                              !.out = DeriveBaseName(probe.task, probe.mode,
                                                     probe.resolved)]
    /\ UNCHANGED << cfgV, runV, queueV, outV, gateV, cancelV, now, pc, cur, call,
                    attempt, pend, wakeAt, ret, reqCount, extCalls, answered,
                    gateOk, gateEntry, connV >>

SpecBase == InitBase /\ [][DeriveBase]_vars

\* the mode's own field of the task is set
ModeFieldSet(task, mode) ==
    \/ mode = "url" /\ task.url # ""
    \/ mode = "commentId" /\ task.commentId \notin {None, 0}
    \/ mode = "fileName" /\ task.fileName # ""
    \/ mode = "anime" /\ task.anime # ""

\* C34: the base name is the task's name when it has one; else the resolved
\* titles joined by "-" when either was resolved; else what the mode gives
\* (the url, comment-<id>, the fileName, <anime>-<episode or all>); else
\* task-<index>.
C34_BaseNameByPrecedence ==
    (probe.fn = "_derive_base_name" /\ probe.done) =>
        LET task == probe.task
            titled == probe.resolved.animeTitle # ""
                         \/ probe.resolved.episodeTitle # ""
            out == probe.out
        IN  /\ task.name # "" => out = << task.name >>
            /\ (task.name = "" /\ titled) =>
                  /\ Len(out) = 3 /\ out[2] = "-"
                  /\ probe.resolved.animeTitle # "" =>
                        out[1] = probe.resolved.animeTitle
                  /\ probe.resolved.episodeTitle # "" =>
                        out[3] = probe.resolved.episodeTitle
            /\ (task.name = "" /\ ~titled /\ ModeFieldSet(task, probe.mode)) =>
                  out = CASE probe.mode = "url" -> << task.url >>
                          [] probe.mode = "commentId" ->
                                << "comment-", ToString(task.commentId) >>
                          [] probe.mode = "fileName" -> << task.fileName >>
                          [] probe.mode = "anime" ->
                                << task.anime, "-",
                                   IF task.episode = "" THEN "all"
                                   ELSE task.episode >>
            /\ (task.name = "" /\ ~titled /\ ~ModeFieldSet(task, probe.mode)) =>
                  out = << "task-", ToString(task.index) >>

\* a fileName task without a name whose lookup resolved both titles is named
\* by the titles, not by its fileName
C34_Witness ==
    /\ probe.fn = "_derive_base_name"
    /\ probe.done
    /\ probe.task.name = ""
    /\ probe.task.fileName = "f"
    /\ probe.mode = "fileName"
    /\ probe.out = << "A", "-", "E" >>

(***************************************************************************)
(* The report's counters and items against the Start lines, checked under   *)
(* Spec.                                                                    *)
(***************************************************************************)
\* the items of the report with a given status, with a given index
ItemsWithStatus(status) ==
    {k \in 1..Len(report.items) : report.items[k].status = status}
ItemsOf(index) ==
    {k \in 1..Len(report.items) : report.items[k].index = index}
\* the tasks next_task handed to a worker
HandedTasks == {tasks[handed[k]] : k \in 1..Len(handed)}

\* C36: at every moment the success and failed counters equal the numbers of
\* items of that status, no index has more than one item, and every item is
\* of a task whose Start line was emitted; once the workers have exited every
\* task whose Start line was emitted has exactly one item, and a task that
\* was handed out but dropped on cancellation has neither.
C36_ReportMatchesStartedTasks ==
    /\ report.success = Cardinality(ItemsWithStatus("success"))
    /\ report.failed = Cardinality(ItemsWithStatus("failed"))
    /\ \A i \in 1..MaxRawTasks :
          /\ Cardinality(ItemsOf(i)) <= CopiesIn(StartLine(i), emitted)
          /\ CopiesIn(StartLine(i), emitted) <= 1
          /\ CopiesIn(StartLine(i), emitted) = 1 => i \in HandedTasks
    /\ main \in {"joined", "done"} =>
          \A i \in 1..MaxRawTasks :
             Cardinality(ItemsOf(i)) = CopiesIn(StartLine(i), emitted)

\* a cancelled run is over in which one task was started and has its item and
\* another was handed to a worker and dropped: no Start line, no item
C36_Witness ==
    /\ main = "done"
    /\ report.cancelled
    /\ \E i, j \in HandedTasks :
          /\ CopiesIn(StartLine(i), emitted) = 1
          /\ Cardinality(ItemsOf(i)) = 1
          /\ CopiesIn(StartLine(j), emitted) = 0
          /\ ItemsOf(j) = {}

(***************************************************************************)
(* How far ahead the gate deadline can be, checked under SpecCap: one or    *)
(* two workers and two url tasks before a backend that answers or is        *)
(* rate-limited with a Retry-After far beyond the cap.                      *)
(***************************************************************************)
LongRetryAfterSeconds == 500

CapBackend ==
    {HttpResp(200, "dict_ok", None), HttpResp(429, "empty", LongRetryAfterSeconds)}

InitCap ==
    /\ rateLimitUntil = 0
    /\ InitRun
    /\ concurrency \in 1..MaxConcurrency
    /\ retries \in 0..MaxRetries
    /\ disabledTasks = 3..MaxRawTasks
    /\ backend = CapBackend
    /\ setup = "ok"
    /\ naming_rule = "{index:03d}_{base}"
    /\ bases = DefaultBases
    /\ answers = NoAnswers
    /\ api_root = HttpUrl
    /\ probe = NoProbe
    /\ taskKinds = {<< TaskOf("url"), "xml" >>}
    /\ jitterSigns = {0}

SpecCap == InitCap /\ [][Next]_vars

\* C37: the gate deadline is never more than 120000 ms ahead of the clock:
\* every extension asked for, the exhaustion cooldowns and the waits a
\* Retry-After header drives included, is of at most 120000 ms, so what is
\* left to wait for a worker at the closed gate is at most 120000 ms.
C37_GateAtMostCapAhead ==
    /\ rateLimitUntil - now <= 120000
    /\ \A w \in Workers :
          /\ pend[w].wait_ms <= 120000
          /\ pend[w].target # None => pend[w].target - now <= 120000
          /\ pc[w] = "gate_sleep" => wakeAt[w] - now <= 120000
          /\ pc[w] = "retry_sleep" => wakeAt[w] - now <= 120000

\* a 429 with Retry-After: 500 has put the deadline exactly 120000 ms ahead
\* of the clock, from a deadline that had passed
C37_Witness ==
    \E w \in Workers :
       /\ pc[w] = "retry_sleep"
       /\ ret[w].resp.status = 429
       /\ ret[w].resp.retryAfter = LongRetryAfterSeconds
       /\ extCalls[w] = 1
       /\ rateLimitUntil = now + MAX_RETRY_DELAY_MS
       /\ now < StartClockMs + MAX_RETRY_DELAY_MS

(***************************************************************************)
(* The connection caches of the worker threads, checked under SpecConn:     *)
(* one or two workers and two url tasks before a backend that answers,      *)
(* answers and announces that it closes the connection, is busy, or breaks  *)
(* the connection.                                                          *)
(***************************************************************************)
ConnBackend ==
    {HttpResp(200, "dict_ok", None), Closing(HttpResp(200, "dict_ok", None)),
     HttpResp(503, "empty", None), ExcResp("ConnectionResetError")}

InitConn ==
    /\ rateLimitUntil = 0
    /\ InitRun
    /\ concurrency \in 1..MaxConcurrency
    /\ retries \in 0..MaxRetries
    /\ disabledTasks = 3..MaxRawTasks
    /\ backend = ConnBackend
    /\ setup = "ok"
    /\ naming_rule = "{index:03d}_{base}"
    /\ bases = DefaultBases
    /\ answers = NoAnswers
    /\ api_root = HttpUrl
    /\ probe = NoProbe
    /\ taskKinds = {<< TaskOf("url"), "xml" >>}
    /\ jitterSigns = {0}

SpecConn == InitConn /\ [][Next]_vars

\* the connections in worker w's cache
Cached(w) == {connection_cache[w][k] : k \in DOMAIN connection_cache[w]}

\* _request_once is not running in worker w
AtRest(w) == pc[w] # "await"

\* C39: once _request_once has returned or raised, the worker's cache holds
\* no connection that raised during use and none whose response had
\* will_close set, and it holds the connection that completed without
\* either; while the call runs the connection in use is the cached one; the
\* worker's next request is sent on the connection its cache holds (the
\* same object, now reused) and on a new one only when the cache holds
\* none; every connection a worker caches or uses was created by that
\* worker.
C39_CacheHoldsOnlyGoodConnections ==
    /\ [](\A w \in Workers :
            /\ AtRest(w) => \A c \in Cached(w) : c.state = "idle"
            /\ AtRest(w) /\ conn[w].state \in {"raised", "will_close"} =>
                  \A c \in Cached(w) : c.serial # conn[w].serial
            /\ AtRest(w) /\ conn[w].state = "idle" =>
                  /\ ConnKey(api_root) \in DOMAIN connection_cache[w]
                  /\ connection_cache[w][ConnKey(api_root)] = conn[w]
            /\ ~AtRest(w) =>
                  /\ ConnKey(api_root) \in DOMAIN connection_cache[w]
                  /\ connection_cache[w][ConnKey(api_root)] = conn[w]
                  /\ conn[w].state = "request"
            /\ \A c \in Cached(w) \cup ({conn[w]} \ {NoConn}) : c.owner = w)
    /\ [][\A w \in Workers :
            reqCount'[w] > reqCount[w] =>
                IF Cached(w) # {}
                THEN /\ conn'[w].serial = connection_cache[w][ConnKey(api_root)].serial
                     /\ conn'[w].serial = conn[w].serial
                     /\ conn'[w].reused
                ELSE /\ conn'[w].serial = conn[w].serial + 1
                     /\ ~conn'[w].reused]_vars

\* worker 2 retries on its first connection, kept after a 503; worker 1,
\* whose first connection raised, has retried on a second one and holds none
\* after a response with will_close set
C39_Witness ==
    /\ pc[2] = "await"
    /\ attempt[2] = 1
    /\ conn[2] = [owner |-> 2, serial |-> 1, reused |-> TRUE, state |-> "request"]
    /\ Cached(2) = {conn[2]}
    /\ AtRest(1)
    /\ conn[1] = [owner |-> 1, serial |-> 2, reused |-> FALSE, state |-> "will_close"]
    /\ Cached(1) = {}
=============================================================================
